---- MODULE Spec2Model ----
(***************************************************************************)
(* Model of the rate-limited access-coordination layer of metacord:        *)
(* the DiscordRateLimiter durable object (functions/lib/                   *)
(* discord-rate-limiter.ts) and the widget request handler that drives it. *)
(*                                                                         *)
(* Time is Date.now() in milliseconds.  Values the code keeps in seconds   *)
(* as floating point (resetAt, resetAfter) are kept in thousandths of a    *)
(* second, so resetAt * 1000 of the code is the stored number itself.      *)
(* The durable object runs one method call to completion before the next,  *)
(* so every method is one action.                                          *)
(***************************************************************************)
EXTENDS Integers, Sequences, FiniteSets, TLC

\* ---------------------------------------------------------------- constants
RESERVE_BUFFER == 2
QUEUE_TIMEOUT_MS == 7000
MAX_QUEUE_SIZE == 150
DEFAULT_RATE_LIMIT == 5
STALE_STATE_MS == 60000

\* ------------------------------------------------------------------- bounds
\* Date.now() when the coordinator is constructed, in seconds.
StartSeconds == 100
\* The clock stops MaxTimeouts queue timeouts after the start.
MaxTimeouts == 3
\* acquireSlot calls that may be queued in one behaviour.
MaxCalls == 3
\* The same, where a burst of callers fills the queue (QueueSpec).
MaxCallsQ == 152
\* Widget requests served in one behaviour, each by its own handler.
MaxHandlers == 2

StartNow == StartSeconds * 1000
MaxNow == StartNow + MaxTimeouts * QUEUE_TIMEOUT_MS
Handlers == 1..MaxHandlers

VARIABLES
    rateLimitState,  \* RateLimitState
    queue,           \* QueuedRequest[], each [id, addedAt]
    activeRequests,  \* slots checked out
    now,             \* Date.now()
    timers,          \* armed setTimeout handles, each [id, due]
    nextId,          \* the next fresh queueId (crypto.randomUUID)
    promises,        \* unresolved acquireSlot promises: queueId -> [caller, at]
    ret,             \* the last call: its name and what it returned
    events,          \* resolve() calls made during the last step, in order
    pc,              \* where each widget request handler stands
    slot,            \* each handler's `slot`, the outcome of its acquireSlot
    resp,            \* each handler's widgetResponse
    answer,          \* the HTTP status each handler answered with, 0 if none
    grants,          \* grants delivered to each handler in its request
    releases,        \* releaseSlot calls made by each handler in its request
    given,           \* the headers under study (HeaderSpec)
    store,           \* the SESSIONS key-value namespace: session id -> record
    spc,             \* where each session request stands
    sloc,            \* each session request's locals
    out,             \* each session request's HTTP response
    nextToken,       \* the next token pair the provider mints
    nextIv,          \* the next initialisation vector crypto.getRandomValues draws
    nextUuid,        \* the next session id crypto.randomUUID draws
    fetchState,      \* fetchState of the fetch orchestrator
    run,             \* the locals of performWidgetFetch
    inflight,        \* the outcomes of the fetches of the batch in flight
    ui,              \* what the page shows and keeps: screen, toasts, cache
    crypt            \* a token taken through encryptToken and decryptToken

cvars == <<rateLimitState, queue, activeRequests, timers, nextId, promises>>
svars == <<store, spc, sloc, out, nextToken, nextIv, nextUuid>>
ovars == <<fetchState, run, inflight, ui>>
hvars == <<pc, resp, answer, releases, given, svars, ovars, crypt>>
vars == <<rateLimitState, queue, activeRequests, now, timers, nextId,
          promises, ret, events, pc, slot, resp, answer, grants, releases, given,
          store, spc, sloc, out, nextToken, nextIv, nextUuid,
          fetchState, run, inflight, ui, crypt>>

\* ------------------------------------------------------------------ helpers
Max(a, b) == IF a >= b THEN a ELSE b

\* A header value: null, or a string given as its sequence of characters.
NullH == [present |-> FALSE, value |-> <<>>]
H(s) == [present |-> TRUE, value |-> s]

IsDigit(c) == c \in {"0", "1", "2", "3", "4", "5", "6", "7", "8", "9"}

DigitVal(c) ==
    CASE c = "0" -> 0 [] c = "1" -> 1 [] c = "2" -> 2 [] c = "3" -> 3
      [] c = "4" -> 4 [] c = "5" -> 5 [] c = "6" -> 6 [] c = "7" -> 7
      [] c = "8" -> 8 [] c = "9" -> 9

\* The index of the last character of the run of digits that starts at i
\* (i - 1 when s[i] is no digit).
RECURSIVE DigitRunEnd(_, _)
DigitRunEnd(s, i) ==
    IF i <= Len(s) /\ IsDigit(s[i]) THEN DigitRunEnd(s, i + 1) ELSE i - 1

\* The number written by the digits s[i..j].
RECURSIVE DecimalValue(_, _, _)
DecimalValue(s, i, j) ==
    IF j < i THEN 0 ELSE 10 * DecimalValue(s, i, j - 1) + DigitVal(s[j])

NaN == "NaN"

\* parseInt(s, 10): an optional sign, then the longest run of digits; what
\* follows the digits is ignored; NaN when there is no digit.
ParseInt(s) ==
    LET neg == Len(s) > 0 /\ s[1] = "-"
        first == IF Len(s) > 0 /\ s[1] \in {"-", "+"} THEN 2 ELSE 1
        last == DigitRunEnd(s, first)
    IN  IF last < first THEN NaN
        ELSE IF neg THEN 0 - DecimalValue(s, first, last)
        ELSE DecimalValue(s, first, last)

\* parseFloat(s), in thousandths: the integer part, then at most three
\* digits of the fraction after a ".".
ParseFloat(s) ==
    LET neg == Len(s) > 0 /\ s[1] = "-"
        first == IF Len(s) > 0 /\ s[1] \in {"-", "+"} THEN 2 ELSE 1
        last == DigitRunEnd(s, first)
        hasFrac == last < Len(s) /\ s[last + 1] = "."
        fracEnd == IF hasFrac THEN DigitRunEnd(s, last + 2) ELSE last + 1
        nFrac == IF hasFrac THEN fracEnd - (last + 1) ELSE 0
        kept == IF nFrac > 3 THEN 3 ELSE nFrac
        frac == IF kept = 0 THEN 0
                ELSE DecimalValue(s, last + 2, last + 1 + kept)
        scale == CASE kept = 0 -> 1 [] kept = 1 -> 100 [] kept = 2 -> 10
                   [] kept = 3 -> 1
        mag == DecimalValue(s, first, last) * 1000 + frac * scale
    IN  IF last < first /\ nFrac = 0 THEN NaN
        ELSE IF neg THEN 0 - mag ELSE mag

\* ------------------------------------------------------------- result values
Undefined == "undefined"
NoWait == -1
NoId == 0
QUEUE_FULL == "Rate limit queue full"
QUEUE_TIMEOUT == "Queue timeout"

\* AcquireSlotResult; an absent field holds Undefined, NoWait or NoId.
Granted(id) ==
    [allowed |-> TRUE, error |-> Undefined, waitMs |-> NoWait, queueId |-> id]
Denied(err, wait) ==
    [allowed |-> FALSE, error |-> err, waitMs |-> wait, queueId |-> NoId]
NoValue ==
    [allowed |-> FALSE, error |-> Undefined, waitMs |-> NoWait, queueId |-> NoId]

\* The last call: its name, and what it gave its caller: a value (returned),
\* a promise still unresolved (suspended, promise = its queueId), or nothing
\* (void).
Returned(op, v) ==
    [op |-> op, status |-> "returned", value |-> v, promise |-> NoId]
Suspended(op, id) ==
    [op |-> op, status |-> "suspended", value |-> NoValue, promise |-> id]
Void(op) ==
    [op |-> op, status |-> "void", value |-> NoValue, promise |-> NoId]

\* ------------------------------------------------------------ the coordinator
getDefaultState ==
    [limit |-> DEFAULT_RATE_LIMIT,
     remaining |-> DEFAULT_RATE_LIMIT - RESERVE_BUFFER,
     resetAt |-> 0,
     resetAfter |-> 0,
     bucket |-> NullH,
     isGlobal |-> FALSE,
     scope |-> NullH,
     lastUpdated |-> 0]

isStateStale(st, t) ==
    IF st.lastUpdated = 0 THEN TRUE
    ELSE t - st.lastUpdated > STALE_STATE_MS

\* A faulty variant of getEffectiveRemaining: a stale state does not count the
\* slots checked out.
getEffectiveRemainingStaleFull(st, active, t) ==
    LET resetAtMs == st.resetAt
    IN  IF resetAtMs > 0 /\ t >= resetAtMs
        THEN st.limit - RESERVE_BUFFER - active
        ELSE IF isStateStale(st, t)
        THEN Max(0, DEFAULT_RATE_LIMIT - RESERVE_BUFFER)
        ELSE Max(0, st.remaining - RESERVE_BUFFER - active)

\* A faulty variant of getEffectiveRemaining: no reserve is held back.
getEffectiveRemainingNoReserve(st, active, t) ==
    LET resetAtMs == st.resetAt
    IN  IF resetAtMs > 0 /\ t >= resetAtMs
        THEN st.limit - active
        ELSE IF isStateStale(st, t)
        THEN Max(0, DEFAULT_RATE_LIMIT - active)
        ELSE Max(0, st.remaining - active)

\* A faulty variant of getEffectiveRemaining: staleness is tested before the
\* reset time.
getEffectiveRemainingStaleFirst(st, active, t) ==
    LET resetAtMs == st.resetAt
    IN  IF isStateStale(st, t)
        THEN Max(0, DEFAULT_RATE_LIMIT - RESERVE_BUFFER - active)
        ELSE IF resetAtMs > 0 /\ t >= resetAtMs
        THEN st.limit - RESERVE_BUFFER - active
        ELSE Max(0, st.remaining - RESERVE_BUFFER - active)

getEffectiveRemaining(st, active, t) ==
    LET resetAtMs == st.resetAt
    IN  IF resetAtMs > 0 /\ t >= resetAtMs
        THEN st.limit - RESERVE_BUFFER - active
        ELSE IF isStateStale(st, t)
        THEN Max(0, DEFAULT_RATE_LIMIT - RESERVE_BUFFER - active)
        ELSE Max(0, st.remaining - RESERVE_BUFFER - active)

getWaitTimeMs(st, t) ==
    LET resetAtMs == st.resetAt
    IN  IF resetAtMs <= t THEN 0 ELSE resetAtMs - t + 100

\* A faulty variant of processQueue: it takes the newest request (pop), not the
\* oldest (shift).
RECURSIVE processQueueNewestFirst(_, _, _, _)
processQueueNewestFirst(st, q, active, t) ==
    IF Len(q) > 0 /\ ~(getEffectiveRemaining(st, active, t) <= 0)
    THEN LET rest == processQueueNewestFirst(st, SubSeq(q, 1, Len(q) - 1),
                                             active + 1, t)
         IN  [queue |-> rest.queue,
              activeRequests |-> rest.activeRequests,
              granted |-> <<q[Len(q)].id>> \o rest.granted]
    ELSE [queue |-> q, activeRequests |-> active, granted |-> <<>>]

\* A faulty variant of processQueue: it grants one request at most.
processQueueOnce(st, q, active, t) ==
    IF Len(q) > 0 /\ ~(getEffectiveRemaining(st, active, t) <= 0)
    THEN [queue |-> Tail(q), activeRequests |-> active + 1,
          granted |-> <<Head(q).id>>]
    ELSE [queue |-> q, activeRequests |-> active, granted |-> <<>>]

\* processQueue: the queue and activeRequests it leaves, and the queueIds it
\* granted, in the order it resolved them.
RECURSIVE processQueue(_, _, _, _)
processQueue(st, q, active, t) ==
    IF Len(q) > 0 /\ ~(getEffectiveRemaining(st, active, t) <= 0)
    THEN LET rest == processQueue(st, Tail(q), active + 1, t)
         IN  [queue |-> rest.queue,
              activeRequests |-> rest.activeRequests,
              granted |-> <<Head(q).id>> \o rest.granted]
    ELSE [queue |-> q, activeRequests |-> active, granted |-> <<>>]

\* A faulty variant of ClearTimeouts: a grant cancels every armed timer.
ClearEveryTimeout(ts, ids) == IF Len(ids) > 0 THEN {} ELSE ts

\* clearTimeout(next.timeout) for every granted request.
ClearTimeouts(ts, ids) ==
    {tm \in ts : \A i \in 1..Len(ids) : ids[i] # tm.id}

\* The promises left unresolved once resolve() was called for ids.
Settle(ps, ids) ==
    [p \in {x \in DOMAIN ps : \A i \in 1..Len(ids) : ids[i] # x} |-> ps[p]]

GrantEvents(ids) ==
    [i \in 1..Len(ids) |-> [id |-> ids[i], value |-> Granted(ids[i])]]

\* resolve(v) reaches the handler that awaits the promise: v becomes its
\* `slot`.  evs are the resolve() calls of this step, ps the promises that
\* were unresolved before it.
ResolvedFor(evs, ps, h) ==
    {i \in 1..Len(evs) : evs[i].id \in DOMAIN ps /\ ps[evs[i].id].caller = h}

Deliver(evs, ps) ==
    /\ slot' = [h \in Handlers |->
                  IF ResolvedFor(evs, ps, h) # {}
                  THEN Returned("acquireSlot",
                                evs[CHOOSE i \in ResolvedFor(evs, ps, h) : TRUE].value)
                  ELSE slot[h]]
    /\ grants' = [h \in Handlers |->
                    grants[h] + Cardinality({i \in ResolvedFor(evs, ps, h) :
                                                evs[i].value.allowed})]

\* A faulty variant of AdvanceQueue: the queue is left as it is.
AdvanceQueueSkipped(st, active) ==
    /\ activeRequests' = active
    /\ events' = <<>>
    /\ UNCHANGED <<queue, timers, promises, slot, grants>>

\* The tail every queue-advancing method shares: this.processQueue().
AdvanceQueue(st, active) ==
    LET r == processQueue(st, queue, active, now)
    IN  /\ queue' = r.queue
        /\ activeRequests' = r.activeRequests
        /\ timers' = ClearTimeouts(timers, r.granted)
        /\ promises' = Settle(promises, r.granted)
        /\ events' = GrantEvents(r.granted)
        /\ Deliver(events', promises)

Enqueue(q, id, t) == Append(q, [id |-> id, addedAt |-> t])

\* A faulty variant of QueueIsFull: the capacity test is off by one.
QueueIsFullOffByOne(q) == Len(q) > MAX_QUEUE_SIZE

\* if (this.queue.length >= MAX_QUEUE_SIZE)
QueueIsFull(q) == Len(q) >= MAX_QUEUE_SIZE

\* What acquireSlot hands its caller at once.
Handed(caller, r) ==
    /\ ret' = r
    /\ events' = <<>>
    /\ slot' = [h \in Handlers |-> IF h = caller THEN r ELSE slot[h]]
    /\ grants' = [h \in Handlers |->
                    IF h = caller /\ r.status = "returned" /\ r.value.allowed
                    THEN grants[h] + 1 ELSE grants[h]]

\* acquireSlot(), called by `caller` (0: a caller that is no widget
\* handler); at most maxCalls calls are ever queued.
AcquireSlot(caller, maxCalls) ==
    LET effectiveRemaining ==
            getEffectiveRemaining(rateLimitState, activeRequests, now)
    IN  IF effectiveRemaining > 0
        THEN /\ activeRequests' = activeRequests + 1
             /\ Handed(caller, Returned("acquireSlot", Granted(NoId)))
             /\ UNCHANGED <<rateLimitState, queue, timers, nextId, promises>>
        ELSE IF QueueIsFull(queue)
        THEN /\ Handed(caller,
                       Returned("acquireSlot",
                                Denied(QUEUE_FULL, getWaitTimeMs(rateLimitState, now))))
             /\ UNCHANGED cvars
        ELSE /\ nextId <= maxCalls
             /\ queue' = Enqueue(queue, nextId, now)
             /\ timers' = timers \cup {[id |-> nextId, due |-> now + QUEUE_TIMEOUT_MS]}
             /\ promises' = promises @@ (nextId :> [caller |-> caller, at |-> now])
             /\ nextId' = nextId + 1
             /\ Handed(caller, Suspended("acquireSlot", nextId))
             /\ UNCHANGED <<rateLimitState, activeRequests>>

\* The index of the queued request with this id, 0 when there is none
\* (findIndex, which answers -1).
FindIndex(q, id) ==
    IF \E i \in 1..Len(q) : q[i].id = id
    THEN CHOOSE i \in 1..Len(q) :
            q[i].id = id /\ \A j \in 1..(i - 1) : q[j].id # id
    ELSE 0

\* A faulty variant of Splice: nothing is removed.
SpliceKeeps(q, i) == q

\* this.queue.splice(index, 1)
Splice(q, i) == SubSeq(q, 1, i - 1) \o SubSeq(q, i + 1, Len(q))

\* The timer that runs next: it is due, and no other armed timer is due
\* earlier or was set earlier for the same instant.
NextTimer(tm) ==
    /\ tm \in timers
    /\ now >= tm.due
    /\ \A o \in timers : o.due > tm.due \/ (o.due = tm.due /\ o.id >= tm.id)

\* A faulty variant of OnQueueTimeout: a timeout is reported with the error of a
\* full queue.
OnQueueTimeoutAsFull(tm) ==
    LET index == FindIndex(queue, tm.id)
    IN  IF index # 0
        THEN /\ queue' = Splice(queue, index)
             /\ promises' = Settle(promises, <<tm.id>>)
             /\ events' = <<[id |-> tm.id,
                             value |-> Denied(QUEUE_FULL,
                                              getWaitTimeMs(rateLimitState, now))]>>
        ELSE /\ events' = <<>>
             /\ UNCHANGED <<queue, promises>>

\* The setTimeout callback of a queued request.
OnQueueTimeout(tm) ==
    LET index == FindIndex(queue, tm.id)
    IN  IF index # 0
        THEN /\ queue' = Splice(queue, index)
             /\ promises' = Settle(promises, <<tm.id>>)
             /\ events' = <<[id |-> tm.id,
                             value |-> Denied(QUEUE_TIMEOUT,
                                              getWaitTimeMs(rateLimitState, now))]>>
        ELSE /\ events' = <<>>
             /\ UNCHANGED <<queue, promises>>

TimerFire(tm) ==
    /\ NextTimer(tm)
    /\ timers' = timers \ {tm}
    /\ OnQueueTimeout(tm)
    /\ Deliver(events', promises)
    /\ ret' = Void("timeout")
    /\ UNCHANGED <<rateLimitState, activeRequests, nextId, now>>
    /\ UNCHANGED hvars

\* A faulty variant of MergeHeaders: the test for a limit or remaining header is
\* missing.
MergeHeadersUnguarded(st, h, t) ==
    [limit |-> IF h.limit.present THEN ParseInt(h.limit.value) ELSE st.limit,
     remaining |-> IF h.remaining.present THEN ParseInt(h.remaining.value)
                   ELSE st.remaining,
     resetAt |-> IF h.reset.present THEN ParseFloat(h.reset.value) ELSE st.resetAt,
     resetAfter |-> IF h.resetAfter.present THEN ParseFloat(h.resetAfter.value)
                    ELSE st.resetAfter,
     bucket |-> IF h.bucket.present THEN h.bucket ELSE st.bucket,
     isGlobal |-> IF h.global.present
                  THEN h.global.value = <<"t", "r", "u", "e">>
                  ELSE st.isGlobal,
     scope |-> IF h.scope.present THEN h.scope ELSE st.scope,
     lastUpdated |-> t]

\* A faulty variant of MergeHeaders: isGlobal is set whenever the global header is
\* present, whatever it says.
MergeHeadersGlobalPresent(st, h, t) ==
    IF h.limit.present \/ h.remaining.present
    THEN [limit |-> IF h.limit.present THEN ParseInt(h.limit.value) ELSE st.limit,
          remaining |-> IF h.remaining.present THEN ParseInt(h.remaining.value)
                        ELSE st.remaining,
          resetAt |-> IF h.reset.present THEN ParseFloat(h.reset.value)
                      ELSE st.resetAt,
          resetAfter |-> IF h.resetAfter.present THEN ParseFloat(h.resetAfter.value)
                         ELSE st.resetAfter,
          bucket |-> IF h.bucket.present THEN h.bucket ELSE st.bucket,
          isGlobal |-> IF h.global.present THEN TRUE ELSE st.isGlobal,
          scope |-> IF h.scope.present THEN h.scope ELSE st.scope,
          lastUpdated |-> t]
    ELSE st

\* The state updateFromResponse leaves for the headers it is given.
MergeHeaders(st, h, t) ==
    IF h.limit.present \/ h.remaining.present
    THEN [limit |-> IF h.limit.present THEN ParseInt(h.limit.value) ELSE st.limit,
          remaining |-> IF h.remaining.present THEN ParseInt(h.remaining.value)
                        ELSE st.remaining,
          resetAt |-> IF h.reset.present THEN ParseFloat(h.reset.value)
                      ELSE st.resetAt,
          resetAfter |-> IF h.resetAfter.present THEN ParseFloat(h.resetAfter.value)
                         ELSE st.resetAfter,
          bucket |-> IF h.bucket.present THEN h.bucket ELSE st.bucket,
          isGlobal |-> IF h.global.present
                       THEN h.global.value = <<"t", "r", "u", "e">>
                       ELSE st.isGlobal,
          scope |-> IF h.scope.present THEN h.scope ELSE st.scope,
          lastUpdated |-> t]
    ELSE st

UpdateFromResponse(h) ==
    /\ rateLimitState' = MergeHeaders(rateLimitState, h, now)
    /\ AdvanceQueue(rateLimitState', activeRequests)
    /\ ret' = Void("updateFromResponse")
    /\ UNCHANGED nextId

\* A faulty variant of Decrement: the guard against going below zero is missing.
DecrementUnguarded(active) == active - 1

Decrement(active) == IF active > 0 THEN active - 1 ELSE active

ReleaseSlot(caller) ==
    /\ AdvanceQueue(rateLimitState, Decrement(activeRequests))
    /\ ret' = Void("releaseSlot")
    /\ UNCHANGED <<rateLimitState, nextId>>

\* A faulty variant of RateLimited: the seconds of retryAfter are added to the
\* milliseconds of now.
RateLimitedMixedUnits(st, retryAfterSeconds, t) ==
    [st EXCEPT !.remaining = 0,
               !.resetAt = t + retryAfterSeconds,
               !.resetAfter = retryAfterSeconds * 1000,
               !.lastUpdated = t]

\* A faulty variant of RateLimited: remaining is left as it was.
RateLimitedKeepsRemaining(st, retryAfterSeconds, t) ==
    [st EXCEPT !.resetAt = t + retryAfterSeconds * 1000,
               !.resetAfter = retryAfterSeconds * 1000,
               !.lastUpdated = t]

RateLimited(st, retryAfterSeconds, t) ==
    [st EXCEPT !.remaining = 0,
               !.resetAt = t + retryAfterSeconds * 1000,
               !.resetAfter = retryAfterSeconds * 1000,
               !.lastUpdated = t]

HandleRateLimited(retryAfterSeconds) ==
    /\ rateLimitState' = RateLimited(rateLimitState, retryAfterSeconds, now)
    /\ ret' = Void("handleRateLimited")
    /\ events' = <<>>
    /\ UNCHANGED <<queue, activeRequests, timers, nextId, promises, slot, grants>>

\* Time passes; a timer that is due runs before the clock moves past it.
Tick(d, maxNow) ==
    /\ now + d <= maxNow
    /\ \A tm \in timers : now + d <= tm.due
    /\ now' = now + d
    /\ ret' = Void("tick")
    /\ events' = <<>>
    /\ UNCHANGED cvars
    /\ UNCHANGED <<slot, grants>>
    /\ UNCHANGED hvars

\* ------------------------------------------------------------------- inputs
RetryAfters == {0, 7}

NoHeaders ==
    [limit |-> NullH, remaining |-> NullH, reset |-> NullH, resetAfter |-> NullH,
     bucket |-> NullH, global |-> NullH, scope |-> NullH]

\* Header values the provider sends.
Limits == {H(<<"1", "0">>), H(<<"1">>)}
Remainings == {H(<<"8">>), H(<<"0">>)}
Resets == {H(<<"1", "0", "7", ".", "0", "0", "0">>)}
ResetAfters == {H(<<"5", ".", "0">>)}
Buckets == {H(<<"a", "b", "c", "1", "2", "3">>)}
Globals == {H(<<"t", "r", "u", "e">>), H(<<"f", "a", "l", "s", "e">>)}
Scopes == {H(<<"u", "s", "e", "r">>)}

\* Every combination of present and absent headers.
AllHeaders ==
    [limit : Limits \cup {NullH}, remaining : Remainings \cup {NullH},
     reset : Resets \cup {NullH}, resetAfter : ResetAfters \cup {NullH},
     bucket : Buckets \cup {NullH}, global : Globals \cup {NullH},
     scope : Scopes \cup {NullH}]

FullHeaders ==
    [limit |-> H(<<"1", "0">>), remaining |-> H(<<"8">>),
     reset |-> H(<<"1", "0", "7", ".", "0", "0", "0">>),
     resetAfter |-> H(<<"5", ".", "0">>),
     bucket |-> H(<<"a", "b", "c", "1", "2", "3">>), global |-> NullH,
     scope |-> H(<<"u", "s", "e", "r">>)]

\* The responses the coordinator is fed where it also serves callers.
Headers ==
    { NoHeaders,
      FullHeaders,
      [NoHeaders EXCEPT !.remaining = H(<<"0">>)],
      [NoHeaders EXCEPT !.limit = H(<<"1">>)] }

\* -------------------------------------------------------- the widget handler
\* A response of the provider: its status, its rate-limit headers, its
\* Retry-After header, the retry_after of its JSON body in thousandths (0:
\* none), or no response at all because fetch threw.
Response(status, headers, retryAfter, bodyRetryAfter) ==
    [status |-> status, headers |-> headers, retryAfter |-> retryAfter,
     bodyRetryAfter |-> bodyRetryAfter, thrown |-> FALSE]
NoResponse == Response(0, NoHeaders, NullH, 0)
Thrown == [NoResponse EXCEPT !.thrown = TRUE]

Responses ==
    { Response(200, FullHeaders, NullH, 0),
      Response(404, NoHeaders, NullH, 0),
      Response(429, [NoHeaders EXCEPT !.remaining = H(<<"0">>)], H(<<"7">>), 0),
      Response(429, NoHeaders, NullH, 6500),
      Response(429, NoHeaders, NullH, 0),
      Response(500, NoHeaders, NullH, 0),
      Thrown }

NoRetryAfter == -1

\* Math.ceil of a number of thousandths.
Ceil(x) == IF x % 1000 = 0 THEN x \div 1000 ELSE x \div 1000 + 1

\* retryAfter of the 429 branch: the Retry-After header if it is a
\* non-empty string, else the body's retry_after if it has one, else null.
RetryAfterOf(r) ==
    IF r.retryAfter.present /\ Len(r.retryAfter.value) > 0
    THEN ParseInt(r.retryAfter.value)
    ELSE IF r.bodyRetryAfter # 0 THEN Ceil(r.bodyRetryAfter)
    ELSE NoRetryAfter

\* const slot = await rateLimiter.acquireSlot()
HandlerAcquire(h) ==
    /\ pc[h] = "idle"
    /\ AcquireSlot(h, MaxCalls)
    /\ pc' = [pc EXCEPT ![h] = "wait"]
    /\ UNCHANGED <<now, resp, answer, releases, given, svars, ovars, crypt>>

\* A faulty variant of AfterAcquire: slot.allowed is not looked at.
AfterAcquireUnchecked(s) == "fetch"

\* Where the handler goes once acquireSlot has answered.
AfterAcquire(s) == IF ~s.value.allowed THEN "done" ELSE "fetch"

\* if (!slot.allowed) return 429; else enter the try block.
HandlerProceed(h) ==
    /\ pc[h] = "wait"
    /\ slot[h].status = "returned"
    /\ pc' = [pc EXCEPT ![h] = AfterAcquire(slot[h])]
    /\ answer' = [answer EXCEPT ![h] = IF AfterAcquire(slot[h]) = "done" THEN 429 ELSE 0]
    /\ UNCHANGED <<now, resp, releases, given, svars, ovars, crypt, slot, grants, ret, events>>
    /\ UNCHANGED cvars

\* const widgetResponse = await fetch(...); a throw goes to finally.
HandlerFetch(h, r) ==
    /\ pc[h] = "fetch"
    /\ resp' = [resp EXCEPT ![h] = r]
    /\ pc' = [pc EXCEPT ![h] = IF r.thrown THEN "release" ELSE "update"]
    /\ answer' = [answer EXCEPT ![h] = IF r.thrown THEN 500 ELSE 0]
    /\ UNCHANGED <<now, releases, given, svars, ovars, crypt, slot, grants, ret, events>>
    /\ UNCHANGED cvars

\* A faulty variant of AfterUpdate: a 429 is answered without telling the
\* coordinator of it.
AfterUpdateSkipsNotify(r) ==
    IF r.status >= 200 /\ r.status <= 299 THEN [pc |-> "release", answer |-> 200]
    ELSE IF r.status = 403 \/ r.status = 404 THEN [pc |-> "release", answer |-> 200]
    ELSE IF r.status = 429 THEN [pc |-> "release", answer |-> 429]
    ELSE [pc |-> "release", answer |-> 500]

\* What the handler does after updateFromResponse: the next call it makes
\* and the status it answers with, 0 while undecided.
AfterUpdate(r) ==
    IF r.status >= 200 /\ r.status <= 299 THEN [pc |-> "release", answer |-> 200]
    ELSE IF r.status = 403 \/ r.status = 404 THEN [pc |-> "release", answer |-> 200]
    ELSE IF r.status = 429
    THEN IF RetryAfterOf(r) # NoRetryAfter THEN [pc |-> "notify", answer |-> 0]
         ELSE [pc |-> "release", answer |-> 429]
    ELSE [pc |-> "release", answer |-> 500]

\* await rateLimiter.updateFromResponse(rateLimitHeaders), then the branch on
\* the status.
HandlerUpdate(h) ==
    /\ pc[h] = "update"
    /\ UpdateFromResponse(resp[h].headers)
    /\ pc' = [pc EXCEPT ![h] = AfterUpdate(resp[h]).pc]
    /\ answer' = [answer EXCEPT ![h] = AfterUpdate(resp[h]).answer]
    /\ UNCHANGED <<now, resp, releases, given, svars, ovars, crypt>>

\* await rateLimiter.handleRateLimited(retryAfter), then return 429.
HandlerNotify(h) ==
    /\ pc[h] = "notify"
    /\ HandleRateLimited(RetryAfterOf(resp[h]))
    /\ pc' = [pc EXCEPT ![h] = "release"]
    /\ answer' = [answer EXCEPT ![h] = 429]
    /\ UNCHANGED <<now, resp, releases, given, svars, ovars, crypt>>

\* finally { await rateLimiter.releaseSlot() }
HandlerRelease(h) ==
    /\ pc[h] = "release"
    /\ ReleaseSlot(h)
    /\ releases' = [releases EXCEPT ![h] = releases[h] + 1]
    /\ pc' = [pc EXCEPT ![h] = "done"]
    /\ UNCHANGED <<now, resp, answer, given, svars, ovars, crypt>>

\* if (cached) return cached
HandlerCacheHit(h) ==
    /\ pc[h] = "idle"
    /\ pc' = [pc EXCEPT ![h] = "done"]
    /\ answer' = [answer EXCEPT ![h] = 200]
    /\ UNCHANGED <<now, resp, releases, given, svars, ovars, crypt, slot, grants, ret, events>>
    /\ UNCHANGED cvars

\* ---------------------------------------------------------- the session vault
SESSION_COOKIE_NAME_SECURE == "__Host-session"
SESSION_COOKIE_NAME_INSECURE == "session"
SESSION_TTL_SECONDS == 60 * 30
REFRESH_WINDOW_MS == 5 * 60 * 1000

\* Requests that go through the session vault in one behaviour.
MaxRequests == 2
\* OAuth callbacks that complete in one behaviour.
MaxLogins == 1

SessionRequests == 1..MaxRequests

DigitChar(n) ==
    CASE n = 0 -> "0" [] n = 1 -> "1" [] n = 2 -> "2" [] n = 3 -> "3"
      [] n = 4 -> "4" [] n = 5 -> "5" [] n = 6 -> "6" [] n = 7 -> "7"
      [] n = 8 -> "8" [] n = 9 -> "9"

\* Strings are sequences of characters.  The n-th value of
\* crypto.randomUUID(), and the n-th token pair the provider mints.
Uuid(n) == <<"u", "-", DigitChar(n)>>
AccessToken(n) == <<"a", DigitChar(n)>>
RefreshToken(n) == <<"r", DigitChar(n)>>

\* The session id of the record the store starts with, and one the store
\* has never held.
KnownId == Uuid(1)
UnknownId == Uuid(0)
SessionIds == {Uuid(n) : n \in 0..(1 + MaxLogins)}

\* env.SESSION_SECRET, and a secret that was in use earlier.
SESSION_SECRET == <<"k", "1">>
RotatedSecret == <<"k", "0">>

\* --- functions/lib/crypto.ts
\* Strings are sequences of UTF-16 code units.  Those of the model: some
\* ASCII characters, U+00E9 and U+20AC of the basic plane, the surrogate
\* pair of U+1F389, and U+FFFD, the replacement character.
AsciiChars ==
    {"a", "k", "r", "-", "0", "1", "2", "3", "4", "5", "6", "7", "8", "9"}
HighSurrogate == "U+D83C"
LowSurrogate == "U+DF89"
ReplacementChar == "U+FFFD"

AsciiCode(c) ==
    CASE c = "a" -> 97
      [] c = "k" -> 107
      [] c = "r" -> 114
      [] c = "-" -> 45
      [] OTHER -> 48 + DigitVal(c)

AsciiChar(byte) ==
    IF \E c \in AsciiChars : AsciiCode(c) = byte
    THEN CHOOSE c \in AsciiChars : AsciiCode(c) = byte
    ELSE "?"

\* textEncoder.encode(value): UTF-8, a surrogate pair as one four-byte
\* sequence and a surrogate without its partner as U+FFFD.
RECURSIVE TextEncode(_)
TextEncode(value) ==
    IF value = <<>> THEN <<>>
    ELSE LET c == Head(value)
         IN  IF c \in AsciiChars
             THEN <<AsciiCode(c)>> \o TextEncode(Tail(value))
             ELSE IF c = "U+00E9"
             THEN <<195, 169>> \o TextEncode(Tail(value))
             ELSE IF c = "U+20AC"
             THEN <<226, 130, 172>> \o TextEncode(Tail(value))
             ELSE IF /\ c = HighSurrogate
                     /\ Len(value) >= 2
                     /\ value[2] = LowSurrogate
             THEN <<240, 159, 142, 137>> \o TextEncode(Tail(Tail(value)))
             ELSE <<239, 191, 189>> \o TextEncode(Tail(value))

\* Does a sequence of bytes start with these bytes?
StartsWith(bytes, prefix) ==
    /\ Len(bytes) >= Len(prefix)
    /\ SubSeq(bytes, 1, Len(prefix)) = prefix

\* A faulty variant of TextDecode: every byte is taken for a character.
RECURSIVE TextDecodeBytewise(_)
TextDecodeBytewise(bytes) ==
    IF bytes = <<>> THEN <<>>
    ELSE <<IF Head(bytes) < 128 THEN AsciiChar(Head(bytes))
           ELSE ReplacementChar>> \o TextDecodeBytewise(Tail(bytes))

\* textDecoder.decode(bytes): UTF-8, a malformed byte as U+FFFD.
RECURSIVE TextDecode(_)
TextDecode(bytes) ==
    IF bytes = <<>> THEN <<>>
    ELSE IF Head(bytes) < 128
    THEN <<AsciiChar(Head(bytes))>> \o TextDecode(Tail(bytes))
    ELSE IF StartsWith(bytes, <<195, 169>>)
    THEN <<"U+00E9">> \o TextDecode(SubSeq(bytes, 3, Len(bytes)))
    ELSE IF StartsWith(bytes, <<226, 130, 172>>)
    THEN <<"U+20AC">> \o TextDecode(SubSeq(bytes, 4, Len(bytes)))
    ELSE IF StartsWith(bytes, <<239, 191, 189>>)
    THEN <<ReplacementChar>> \o TextDecode(SubSeq(bytes, 4, Len(bytes)))
    ELSE IF StartsWith(bytes, <<240, 159, 142, 137>>)
    THEN <<HighSurrogate, LowSurrogate>>
         \o TextDecode(SubSeq(bytes, 5, Len(bytes)))
    ELSE <<ReplacementChar>> \o TextDecode(Tail(bytes))

\* The AES-GCM key derived from a secret: the SHA-256 digest of its bytes.
getAesKey(secret) ==
    [name |-> "AES-GCM", digest |-> <<"sha256", TextEncode(secret)>>]

\* The part of a payload after the "."; empty when there is none.
NoData ==
    [empty |-> TRUE, key |-> getAesKey(<<>>), iv |-> 0, plain |-> <<>>,
     intact |-> FALSE]

\* A stored string: `${iv}.${data}` when it holds a ".", else plain text.
\* ivPart = 0 is the empty string.  The two parts are held as the bytes
\* their base64url text stands for.
Payload(ivPart, dataPart) ==
    [dot |-> TRUE, ivPart |-> ivPart, dataPart |-> dataPart, text |-> <<>>]
PlainText(value) ==
    [dot |-> FALSE, ivPart |-> 0, dataPart |-> NoData, text |-> value]

\* A faulty variant of encryptToken: the value is stored as it is.
encryptTokenIdentity(value, secret, iv) == PlainText(value)

\* encryptToken(value, secret), iv being the 12 random bytes it draws: the
\* data is the bytes of the value sealed under the key and the iv, with its
\* tag.
encryptToken(value, secret, iv) ==
    Payload(iv, [empty |-> FALSE, key |-> getAesKey(secret), iv |-> iv,
                 plain |-> TextEncode(value), intact |-> TRUE])

\* The errors of decryptToken: its own, and the one crypto.subtle.decrypt
\* rejects with.
INVALID_PAYLOAD == "Invalid encrypted token payload"
OPERATION_ERROR == "OperationError"
DecryptThrown(error) == [thrown |-> TRUE, error |-> error, value |-> <<>>]
Decrypted(value) == [thrown |-> FALSE, error |-> "", value |-> value]

\* A faulty variant of decryptToken: the tag is not verified.
decryptTokenUnverified(value, secret) ==
    IF ~value.dot \/ value.ivPart = 0 \/ value.dataPart.empty
    THEN DecryptThrown(INVALID_PAYLOAD)
    ELSE Decrypted(TextDecode(value.dataPart.plain))

\* decryptToken(value, secret): throws on a payload without both parts, and
\* when AES-GCM does not verify the data under this key and iv.
decryptToken(value, secret) ==
    IF ~value.dot \/ value.ivPart = 0 \/ value.dataPart.empty
    THEN DecryptThrown(INVALID_PAYLOAD)
    ELSE IF /\ value.dataPart.key = getAesKey(secret)
            /\ value.dataPart.iv = value.ivPart
            /\ value.dataPart.intact
    THEN Decrypted(TextDecode(value.dataPart.plain))
    ELSE DecryptThrown(OPERATION_ERROR)

\* The token of CryptoSpec: the plaintext and the secret it is encrypted
\* under, the payload, what was done to the payload, the secret it is
\* decrypted under and what decryptToken returned or threw.
Crypt(pcOf, plain, secret, payload, tamper, opener, result) ==
    [pc |-> pcOf, plain |-> plain, secret |-> secret, payload |-> payload,
     tamper |-> tamper, opener |-> opener, result |-> result]
NoCrypt ==
    Crypt("none", <<>>, <<>>, PlainText(<<>>), "none", <<>>, Decrypted(<<>>))

\* The longest plaintext taken through the functions.
MaxTextLen == 2

\* The code units plaintexts are made of, and the plaintexts.
CodeUnits == {"a", "1", "U+00E9", "U+20AC", HighSurrogate, LowSurrogate}
RECURSIVE Texts(_)
Texts(n) ==
    IF n = 0 THEN {<<>>}
    ELSE Texts(n - 1)
         \cup {Append(t, c) : t \in {x \in Texts(n - 1) : Len(x) = n - 1},
                              c \in CodeUnits}

\* The secrets: the current one, an earlier one, the empty one, one of
\* multi-byte characters and two that are a surrogate without its partner.
CryptoSecrets ==
    {SESSION_SECRET, RotatedSecret, <<>>, <<"U+00E9", "k">>,
     <<HighSurrogate>>, <<LowSurrogate>>}

\* The vectors crypto.getRandomValues draws.
CryptoIvs == {1, 2}

\* What may happen to a payload before it is decrypted: a byte of its data
\* or of its iv is changed, or it loses its data, its iv or its ".".
Tampers == {"data", "iv", "no-data", "no-iv", "no-dot"}

Tampered(payload, tamper) ==
    CASE tamper = "data" -> [payload EXCEPT !.dataPart.intact = FALSE]
      [] tamper = "iv" -> [payload EXCEPT !.ivPart = @ + 1]
      [] tamper = "no-data" -> [payload EXCEPT !.dataPart = NoData]
      [] tamper = "no-iv" -> [payload EXCEPT !.ivPart = 0]
      [] OTHER -> PlainText(<<"a", "1">>)

NotCrypto == <<cvars, now, ret, events, slot, grants, pc, resp, answer,
               releases, given, svars, ovars>>

\* encryptToken(crypt.plain, crypt.secret)
Encrypt(iv) ==
    /\ crypt.pc = "plain"
    /\ crypt' = [crypt EXCEPT
                   !.pc = "payload",
                   !.payload = encryptToken(crypt.plain, crypt.secret, iv)]
    /\ UNCHANGED NotCrypto

\* The payload is altered where it is kept.
Tamper(tamper) ==
    /\ crypt.pc = "payload"
    /\ crypt.tamper = "none"
    /\ crypt' = [crypt EXCEPT !.tamper = tamper,
                              !.payload = Tampered(crypt.payload, tamper)]
    /\ UNCHANGED NotCrypto

\* decryptToken(crypt.payload, secret)
Decrypt(secret) ==
    /\ crypt.pc = "payload"
    /\ crypt' = [crypt EXCEPT
                   !.pc = "done",
                   !.opener = secret,
                   !.result = decryptToken(crypt.payload, secret)]
    /\ UNCHANGED NotCrypto

\* --- functions/lib/cookies.ts
\* encodeURIComponent, character by character: letters, digits and "-" are
\* kept, the other characters of the model are escaped.
EscapeChar(c) ==
    CASE c = ";" -> <<"%", "3", "B">>
      [] c = "=" -> <<"%", "3", "D">>
      [] c = " " -> <<"%", "2", "0">>
      [] OTHER -> <<c>>

RECURSIVE encodeURIComponent(_)
encodeURIComponent(value) ==
    IF value = <<>> THEN <<>>
    ELSE EscapeChar(Head(value)) \o encodeURIComponent(Tail(value))

\* serializeCookie(name, value, options), as the attributes of the string.
serializeCookie(name, value, options) ==
    [name |-> name, value |-> encodeURIComponent(value),
     maxAge |-> options.maxAge, path |-> options.path,
     httpOnly |-> options.httpOnly, secure |-> options.secure,
     sameSite |-> options.sameSite]

\* An absent setCookie or clearCookie.
NoCookie ==
    [name |-> "", value |-> <<>>, maxAge |-> 0 - 1, path |-> "",
     httpOnly |-> FALSE, secure |-> FALSE, sameSite |-> ""]

\* --- the session module
isSecureContext(request) == request.protocol = "https:"

\* A faulty variant of getSessionCookieName: one name for every context.
getSessionCookieNameFixed(secure) == SESSION_COOKIE_NAME_SECURE

getSessionCookieName(secure) ==
    IF secure THEN SESSION_COOKIE_NAME_SECURE ELSE SESSION_COOKIE_NAME_INSECURE

buildSessionCookie(sessionId, secure) ==
    serializeCookie(getSessionCookieName(secure), sessionId,
                    [path |-> "/", httpOnly |-> TRUE, secure |-> secure,
                     sameSite |-> "Lax", maxAge |-> SESSION_TTL_SECONDS])

buildClearSessionCookie(secure) ==
    serializeCookie(getSessionCookieName(secure), <<>>,
                    [path |-> "/", httpOnly |-> TRUE, secure |-> secure,
                     sameSite |-> "Lax", maxAge |-> 0])

\* SessionData, and null.
Session(userId, accessToken, refreshToken, expiresAt, createdAt) ==
    [isNull |-> FALSE, userId |-> userId, accessToken |-> accessToken,
     refreshToken |-> refreshToken, expiresAt |-> expiresAt,
     createdAt |-> createdAt]
NoSession ==
    [isNull |-> TRUE, userId |-> <<>>, accessToken |-> <<>>,
     refreshToken |-> <<>>, expiresAt |-> 0, createdAt |-> 0]

\* SessionRecord as the store holds it, and the absence of one.
NoRecord ==
    [exists |-> FALSE, user_id |-> <<>>, access_token |-> PlainText(<<>>),
     refresh_token |-> PlainText(<<>>), expires_at |-> 0, created_at |-> 0]

\* SessionContext; sessionId <<>> is null.
Context(sessionId, session, setCookie, clearCookie, secure) ==
    [sessionId |-> sessionId, session |-> session, setCookie |-> setCookie,
     clearCookie |-> clearCookie, secure |-> secure]
NoContext == Context(<<>>, NoSession, NoCookie, NoCookie, FALSE)

\* DiscordTokenResponse; refresh_token may be missing.
TokenData(access, refresh, expiresIn) ==
    [access_token |-> access, refresh_token |-> refresh, expires_in |-> expiresIn]
NoTokenData == TokenData(<<>>, NullH, 0)

\* expires_in of the provider's grants, in seconds.
ExpiresIns == {604800}

\* The record persistSession builds, iv and iv + 1 being the vectors the two
\* encryptToken calls draw.
SessionRecordOf(session, secret, iv) ==
    [exists |-> TRUE,
     user_id |-> session.userId,
     access_token |-> encryptToken(session.accessToken, secret, iv),
     refresh_token |-> encryptToken(session.refreshToken, secret, iv + 1),
     expires_at |-> session.expiresAt,
     created_at |-> session.createdAt]

\* env.SESSIONS.put(sessionId, JSON.stringify(record), ...)
SessionsPut(st, sessionId, record) == [st EXCEPT ![sessionId] = record]

\* env.SESSIONS.delete(sessionId)
SessionsDelete(st, sessionId) == [st EXCEPT ![sessionId] = NoRecord]

persistSession(sessionId, session) ==
    /\ store' = SessionsPut(store, sessionId,
                            SessionRecordOf(session, SESSION_SECRET, nextIv))
    /\ nextIv' = nextIv + 2

deleteSession(sessionId) ==
    /\ store' = SessionsDelete(store, sessionId)
    /\ UNCHANGED nextIv

\* if (session.expiresAt - Date.now() <= REFRESH_WINDOW_MS)
NeedsRefresh(session, t) == session.expiresAt - t <= REFRESH_WINDOW_MS

\* A faulty variant of RefreshedSession: the tokens of the grant are dropped.
RefreshedSessionStale(session, tokenData, t) ==
    Session(session.userId, session.accessToken, session.refreshToken,
            t + tokenData.expires_in * 1000, session.createdAt)

\* A faulty variant of RefreshedSession: the refresh token of the response
\* is taken even when the response has none.
RefreshedSessionDropsRefresh(session, tokenData, t) ==
    Session(session.userId, tokenData.access_token,
            tokenData.refresh_token.value,
            t + tokenData.expires_in * 1000, session.createdAt)

\* `refreshed` of refreshSession.
RefreshedSession(session, tokenData, t) ==
    Session(session.userId,
            tokenData.access_token,
            IF tokenData.refresh_token.present
            THEN tokenData.refresh_token.value ELSE session.refreshToken,
            t + tokenData.expires_in * 1000,
            session.createdAt)

\* What the token endpoint does with a refresh grant: it accepts it, with or
\* without a new refresh token, rejects it (a non-2xx grant), or the request
\* fails at the network level (fetch throws).
GrantAnswers == {"accepted", "accepted-same-refresh", "rejected", "network"}

\* The locals of a request, before it starts.
NoLocals ==
    [secure |-> FALSE, sessionId |-> <<>>, stored |-> NoRecord,
     session |-> NoSession, ctx |-> NoContext, tokenData |-> NoTokenData,
     before |-> NoSession, refreshed |-> NoSession, refreshedAt |-> 0,
     refreshOutcome |-> "none", readName |-> "", did |-> {}]

\* An HTTP response: its status and its Set-Cookie headers, in order.
HttpResponse(status, cookies) == [status |-> status, cookies |-> cookies]
NoHttpResponse == HttpResponse(0, <<>>)

\* The requests browsers send: over https or http, with the session cookies
\* they hold.
Request(protocol, hostSession, session) ==
    [protocol |-> protocol, hostSession |-> hostSession, session |-> session]
BrowserRequests ==
    { Request("https:", KnownId, <<>>),
      Request("https:", <<>>, <<>>),
      Request("https:", UnknownId, <<>>),
      Request("http:", <<>>, KnownId) }

\* parseCookies(request.headers.get('Cookie'))[cookieName]
CookieOf(request, cookieName) ==
    IF cookieName = SESSION_COOKIE_NAME_SECURE THEN request.hostSession
    ELSE request.session

NotSession ==
    <<cvars, now, ret, events, slot, grants, pc, resp, answer, releases, given,
      ovars, crypt>>

Did(q, tag) == [sloc EXCEPT ![q].did = @ \cup {tag}]

\* getSessionContext, lines 92-98: the cookie is read.
ContextBegin(q, request) ==
    LET secure == isSecureContext(request)
        cookieName == getSessionCookieName(secure)
        sessionId == CookieOf(request, cookieName)
    IN  /\ spc[q] = "idle"
        /\ IF sessionId = <<>>
           THEN /\ spc' = [spc EXCEPT ![q] = "ctx"]
                /\ sloc' = [sloc EXCEPT
                              ![q].secure = secure,
                              ![q].readName = cookieName,
                              ![q].ctx = Context(<<>>, NoSession, NoCookie,
                                                 NoCookie, secure)]
           ELSE /\ spc' = [spc EXCEPT ![q] = "get"]
                /\ sloc' = [sloc EXCEPT ![q].secure = secure,
                                        ![q].readName = cookieName,
                                        ![q].sessionId = sessionId]
        /\ UNCHANGED <<store, out, nextToken, nextIv, nextUuid>>
        /\ UNCHANGED NotSession

\* Where getSessionContext goes once both tokens are decrypted: into the
\* refresh, which gives up at once without a refresh token, or to the
\* re-persist that renews the TTL.
AfterDecrypt(session, t) ==
    IF NeedsRefresh(session, t)
    THEN IF session.refreshToken = <<>> THEN "fail" ELSE "grant"
    ELSE "persist"

\* getSessionContext, lines 100-116: the record is loaded and decrypted.
ContextLoad(q) ==
    LET sessionId == sloc[q].sessionId
        secure == sloc[q].secure
        record == store[sessionId]
        accessToken == decryptToken(record.access_token, SESSION_SECRET)
        refreshToken == decryptToken(record.refresh_token, SESSION_SECRET)
        session == Session(record.user_id, accessToken.value, refreshToken.value,
                           record.expires_at, record.created_at)
    IN  /\ spc[q] = "get"
        /\ IF ~record.exists
           THEN /\ spc' = [spc EXCEPT ![q] = "ctx"]
                /\ sloc' = [sloc EXCEPT
                              ![q].ctx = Context(sessionId, NoSession, NoCookie,
                                                 buildClearSessionCookie(secure),
                                                 secure)]
           ELSE IF accessToken.thrown \/ refreshToken.thrown
           THEN /\ spc' = [spc EXCEPT ![q] = "catch"]
                /\ sloc' = [sloc EXCEPT ![q].stored = record,
                                        ![q].did = @ \cup {"decrypt-thrown"}]
           ELSE /\ spc' = [spc EXCEPT ![q] = AfterDecrypt(session, now)]
                /\ sloc' = [sloc EXCEPT
                              ![q].stored = record,
                              ![q].session = session,
                              ![q].refreshOutcome =
                                  IF AfterDecrypt(session, now) = "fail"
                                  THEN "null" ELSE @,
                              ![q].did =
                                  IF NeedsRefresh(session, now)
                                  THEN @ \cup {"proactive"} ELSE @]
        /\ UNCHANGED <<store, out, nextToken, nextIv, nextUuid>>
        /\ UNCHANGED NotSession

\* getSessionContext, lines 124-132: the session is persisted again, which
\* renews its TTL, and returned.
ContextPersist(q) ==
    /\ spc[q] = "persist"
    /\ persistSession(sloc[q].sessionId, sloc[q].session)
    /\ spc' = [spc EXCEPT ![q] = "ctx"]
    /\ sloc' = [sloc EXCEPT
                  ![q].ctx = Context(sloc[q].sessionId, sloc[q].session,
                                     buildSessionCookie(sloc[q].sessionId,
                                                        sloc[q].secure),
                                     NoCookie, sloc[q].secure),
                  ![q].did = @ \cup {"persist"}]
    /\ UNCHANGED <<out, nextToken, nextUuid>>
    /\ UNCHANGED NotSession

\* refreshSession, lines 168-193: the token request and its grant.  It
\* builds the refreshed session (before: the session it was called with),
\* returns null, or throws.
RefreshFetch(q, grant) ==
    /\ grant \in GrantAnswers
    /\ IF grant \in {"accepted", "accepted-same-refresh"}
       THEN /\ \E e \in ExpiresIns :
                 LET tokenData ==
                        TokenData(AccessToken(nextToken),
                                  IF grant = "accepted"
                                  THEN H(RefreshToken(nextToken)) ELSE NullH,
                                  e)
                 IN  sloc' = [sloc EXCEPT
                        ![q].tokenData = tokenData,
                        ![q].before = sloc[q].session,
                        ![q].refreshedAt = now,
                        ![q].refreshed =
                            RefreshedSession(sloc[q].session, tokenData, now),
                        ![q].did = @ \cup {"grant-accepted"}]
            /\ nextToken' = nextToken + 1
       ELSE /\ sloc' = [sloc EXCEPT
                          ![q].refreshOutcome =
                              IF grant = "rejected" THEN "null" ELSE "raised",
                          ![q].did = @ \cup {IF grant = "rejected"
                                              THEN "grant-rejected"
                                              ELSE "grant-thrown"}]
            /\ UNCHANGED nextToken
    /\ UNCHANGED <<store, nextIv, nextUuid>>
    /\ UNCHANGED NotSession

\* refreshSession, lines 187-196: the refreshed session is persisted and
\* returned.
RefreshStore(q) ==
    LET refreshed == sloc[q].refreshed
    IN  /\ persistSession(sloc[q].sessionId, refreshed)
        /\ sloc' = [sloc EXCEPT
                      ![q].session = refreshed,
                      ![q].refreshOutcome = "session",
                      ![q].ctx = IF spc[q] = "put"
                                 THEN Context(sloc[q].sessionId, refreshed,
                                              buildSessionCookie(sloc[q].sessionId,
                                                                 sloc[q].secure),
                                              NoCookie, sloc[q].secure)
                                 ELSE @,
                      ![q].did = @ \cup {"refresh-stored"}]
        /\ UNCHANGED <<out, nextToken, nextUuid>>
        /\ UNCHANGED NotSession

\* getSessionContext, line 117: the proactive refresh asks for a grant.
ContextGrant(q, grant) ==
    /\ spc[q] = "grant"
    /\ RefreshFetch(q, grant)
    /\ spc' = [spc EXCEPT ![q] =
                  CASE grant = "rejected" -> "fail"
                    [] grant = "network" -> "catch"
                    [] OTHER -> "put"]
    /\ UNCHANGED out

\* getSessionContext, lines 117, 122, 127-132: the refreshed session is
\* stored and returned.
ContextPut(q) ==
    /\ spc[q] = "put"
    /\ RefreshStore(q)
    /\ spc' = [spc EXCEPT ![q] = "ctx"]

\* getSessionContext, lines 118-121 (the refresh returned null) and lines
\* 133-136 (something threw): the session is deleted and the cookie cleared.
ContextInvalidate(q) ==
    /\ spc[q] \in {"fail", "catch"}
    /\ deleteSession(sloc[q].sessionId)
    /\ spc' = [spc EXCEPT ![q] = "ctx"]
    /\ sloc' = [sloc EXCEPT
                  ![q].session = NoSession,
                  ![q].ctx = Context(sloc[q].sessionId, NoSession, NoCookie,
                                     buildClearSessionCookie(sloc[q].secure),
                                     sloc[q].secure),
                  ![q].did = @ \cup {"delete"}]
    /\ UNCHANGED <<out, nextToken, nextUuid>>
    /\ UNCHANGED NotSession

\* applySessionHeaders
applySessionHeaders(ctx) ==
    (IF ctx.setCookie # NoCookie THEN <<ctx.setCookie>> ELSE <<>>)
    \o (IF ctx.clearCookie # NoCookie THEN <<ctx.clearCookie>> ELSE <<>>)

\* The end of a request: its response.
Respond(q, status, cookies) ==
    /\ spc' = [spc EXCEPT ![q] = "done"]
    /\ out' = [out EXCEPT ![q] = HttpResponse(status, cookies)]

\* app.get('/api/me'), lines 180-186: the session headers are applied; with
\* no session the request is answered at once.
MeContext(q) ==
    LET ctx == sloc[q].ctx
    IN  /\ spc[q] = "ctx"
        /\ IF ctx.session.isNull \/ ctx.sessionId = <<>>
           THEN Respond(q, 200, applySessionHeaders(ctx))
           ELSE /\ spc' = [spc EXCEPT ![q] = "call"]
                /\ out' = [out EXCEPT ![q].cookies = applySessionHeaders(ctx)]
        /\ UNCHANGED <<store, sloc, nextToken, nextIv, nextUuid>>
        /\ UNCHANGED NotSession

\* The status /api/me answers with for the provider's status.
MeStatus(status) == IF status >= 200 /\ status <= 299 THEN 200 ELSE 500

\* The statuses the provider answers a call with.
ProviderStatuses == {200, 401, 500}

\* fetchDiscordWithRefresh, lines 495-509, and the handler's lines 194-206:
\* the provider is called; a 401 leads into the reactive refresh, which
\* gives up at once without a refresh token.
MeCall(q, status) ==
    /\ spc[q] = "call"
    /\ status \in ProviderStatuses
    /\ IF status # 401
       THEN /\ Respond(q, MeStatus(status), out[q].cookies)
            /\ sloc' = Did(q, "call")
       ELSE IF sloc[q].session.refreshToken = <<>>
       THEN /\ Respond(q, 200,
                       Append(out[q].cookies,
                              buildClearSessionCookie(sloc[q].ctx.secure)))
            /\ sloc' = [sloc EXCEPT ![q].refreshOutcome = "null",
                                    ![q].did = @ \cup {"call", "reactive"}]
       ELSE /\ spc' = [spc EXCEPT ![q] = "regrant"]
            /\ out' = out
            /\ sloc' = [sloc EXCEPT ![q].refreshOutcome = "none",
                                    ![q].did = @ \cup {"call", "reactive"}]
    /\ UNCHANGED <<store, nextToken, nextIv, nextUuid>>
    /\ UNCHANGED NotSession

\* fetchDiscordWithRefresh, lines 505-513, and the handler's lines 194-197:
\* the reactive refresh asks for a grant.  A rejected grant ends the request
\* with the cookie cleared; a throw leaves the handler, and the framework
\* answers 500 without the handler's headers.
MeGrant(q, grant) ==
    /\ spc[q] = "regrant"
    /\ RefreshFetch(q, grant)
    /\ CASE grant = "rejected" ->
               Respond(q, 200,
                       Append(out[q].cookies,
                              buildClearSessionCookie(sloc[q].ctx.secure)))
         [] grant = "network" -> Respond(q, 500, <<>>)
         [] OTHER -> /\ spc' = [spc EXCEPT ![q] = "reput"]
                     /\ out' = out

\* refreshSession called by fetchDiscordWithRefresh stores what it was
\* granted.
MePut(q) ==
    /\ spc[q] = "reput"
    /\ RefreshStore(q)
    /\ spc' = [spc EXCEPT ![q] = "recall"]

\* fetchDiscordWithRefresh, lines 515-521, and the handler's lines 199-206:
\* the provider is called again with the refreshed access token.
MeRecall(q, status) ==
    /\ spc[q] = "recall"
    /\ status \in ProviderStatuses
    /\ IF status = 401
       THEN Respond(q, 200,
                    Append(out[q].cookies,
                           buildClearSessionCookie(sloc[q].ctx.secure)))
       ELSE Respond(q, MeStatus(status), out[q].cookies)
    /\ sloc' = Did(q, "recall")
    /\ UNCHANGED <<store, nextToken, nextIv, nextUuid>>
    /\ UNCHANGED NotSession

\* app.get('/api/auth/callback'), lines 116-152, once the code was exchanged
\* and the user fetched: a session is persisted under a fresh id and its
\* cookie set.
Login(q, secure) ==
    LET sessionId == Uuid(nextUuid)
    IN  /\ spc[q] = "idle"
        /\ nextUuid <= 1 + MaxLogins
        /\ \E e \in ExpiresIns :
              persistSession(sessionId,
                             Session(<<"7">>, AccessToken(nextToken),
                                     RefreshToken(nextToken), now + e * 1000, now))
        /\ nextToken' = nextToken + 1
        /\ nextUuid' = nextUuid + 1
        /\ Respond(q, 302, <<buildSessionCookie(sessionId, secure)>>)
        /\ sloc' = [sloc EXCEPT ![q].secure = secure,
                                ![q].sessionId = sessionId,
                                ![q].did = @ \cup {"login"}]
        /\ UNCHANGED NotSession

\* logoutHandler, lines 157-174.
Logout(q, request) ==
    LET secure == isSecureContext(request)
        sessionId == CookieOf(request, getSessionCookieName(secure))
    IN  /\ spc[q] = "idle"
        /\ IF sessionId # <<>> THEN deleteSession(sessionId)
           ELSE UNCHANGED <<store, nextIv>>
        /\ Respond(q, 200, <<buildClearSessionCookie(secure)>>)
        /\ sloc' = [sloc EXCEPT ![q].secure = secure,
                                ![q].readName = getSessionCookieName(secure),
                                ![q].sessionId = sessionId,
                                ![q].did = @ \cup {"logout"}]
        /\ UNCHANGED <<nextToken, nextUuid>>
        /\ UNCHANGED NotSession

\* The sessions the store may hold for KnownId when the requests arrive:
\* created a while ago, sealed under the current secret and expiring inside
\* or outside the refresh window, or unreadable: sealed under a rotated
\* secret, corrupted, cut short, or without a refresh token.
StoredSession(expiresAt, refreshToken) ==
    Session(<<"7">>, AccessToken(0), refreshToken, expiresAt, StartNow - 1000)

ExpiryOffsets == {REFRESH_WINDOW_MS - 60000, REFRESH_WINDOW_MS,
                  REFRESH_WINDOW_MS + 60000}

GoodRecords ==
    {SessionRecordOf(StoredSession(StartNow + d, RefreshToken(0)),
                     SESSION_SECRET, 1) : d \in ExpiryOffsets}

SoonExpiring ==
    SessionRecordOf(StoredSession(StartNow + REFRESH_WINDOW_MS - 60000,
                                  RefreshToken(0)), SESSION_SECRET, 1)

BadRecords ==
    { SessionRecordOf(StoredSession(StartNow + REFRESH_WINDOW_MS + 60000,
                                    RefreshToken(0)), RotatedSecret, 1),
      [SoonExpiring EXCEPT !.refresh_token.dataPart.intact = FALSE],
      [SoonExpiring EXCEPT !.access_token = Payload(1, NoData)],
      [SoonExpiring EXCEPT !.refresh_token = PlainText(RefreshToken(0))],
      SessionRecordOf(StoredSession(StartNow + REFRESH_WINDOW_MS - 60000, <<>>),
                      SESSION_SECRET, 1) }

EmptyStore == [id \in SessionIds |-> NoRecord]

InitialStores ==
    {SessionsPut(EmptyStore, KnownId, r) : r \in GoodRecords \cup BadRecords}

\* ------------------------------------------------------ the fetch orchestrator
FETCH_BATCH_SIZE == 5
FETCH_BATCH_DELAY_MS == 1000

\* state.guilds: the servers of the signed-in user.
MaxGuilds == 6

\* The calls of performWidgetFetch in a behaviour with reruns.
MaxRuns == 2
Guilds == 1..MaxGuilds

\* What a fetchWidget call settles with: a widget (whose instant_invite and
\* presence_count may be null), or a rejection: AuthError, RateLimitError
\* with its retryAfter (null, or the seconds parsed from Retry-After), or
\* another Error.
Widget(invite, presence) ==
    [kind |-> "widget", instant_invite |-> invite, presence_count |-> presence,
     retryAfter |-> NullH]
Rejected(kind, retryAfter) ==
    [kind |-> kind, instant_invite |-> NullH, presence_count |-> NullH,
     retryAfter |-> retryAfter]

Outcomes ==
    { Widget(H(<<"i", "n", "v">>), NullH),
      Widget(NullH, H(0)),
      Widget(NullH, NullH),
      Rejected("Error", NullH),
      Rejected("AuthError", NullH),
      Rejected("RateLimitError", NullH),
      Rejected("RateLimitError", H(0)),
      Rejected("RateLimitError", H(3)) }

\* WidgetCacheEntry, and no entry.
CacheEntry(invite, presence, lastCached) ==
    [cached |-> TRUE, instantInvite |-> invite, presenceCount |-> presence,
     lastCached |-> lastCached]
NoEntry ==
    [cached |-> FALSE, instantInvite |-> NullH, presenceCount |-> NullH,
     lastCached |-> 0]

\* A toast: what it says, with the counts of the summary or the seconds of
\* the rate limit.
Toast(kind, enabled, disabled, errorCount, seconds) ==
    [kind |-> kind, enabled |-> enabled, disabled |-> disabled,
     errors |-> errorCount, seconds |-> seconds]

NoFetchState ==
    [shouldStop |-> FALSE, inProgress |-> FALSE, cooldownTimerId |-> FALSE,
     rateLimitTimerId |-> FALSE, rateLimitUntil |-> 0]

\* The locals of performWidgetFetch; issued and fetches count the batches and
\* the fetchWidget calls made so far, and settled holds `results` of the
\* last batch that settled, each with the server it belongs to.
NoRun ==
    [pc |-> "idle", targets |-> <<>>, i |-> 0, total |-> 0, completed |-> 0,
     widgetsEnabled |-> 0, widgetsDisabled |-> 0, errors |-> 0,
     rateLimited |-> FALSE, anySuccess |-> FALSE, issued |-> 0, fetches |-> 0,
     settled |-> <<>>, force |-> FALSE]

\* The page: the screen shown, the toasts shown, the inline progress, and
\* state.userData; runs counts the calls of performWidgetFetch, and
\* storageFull tells that localStorage.setItem throws (the quota is used up).
Page(cache) ==
    [screen |-> "app", toasts |-> <<>>, progressHidden |-> TRUE,
     barStopped |-> FALSE, widgetCache |-> cache, lastFetchTimestamp |-> 0,
     renders |-> 0, runs |-> 0, storageFull |-> FALSE]

\* The orchestrator as one value, for the synchronous stretches of code.
World(fs, r, u) == [fetchState |-> fs, run |-> r, ui |-> u]

\* stopRateLimitTimer
stopRateLimitTimer(fs) ==
    [fs EXCEPT !.rateLimitTimerId = FALSE, !.rateLimitUntil = 0]

\* stopCooldownTimer
stopCooldownTimer(fs) == [fs EXCEPT !.cooldownTimerId = FALSE]

\* startRateLimitTimer(retryAfterSeconds); its first tick stops the timer
\* again only when the deadline is not ahead.
startRateLimitTimer(fs, retryAfterSeconds, t) ==
    [stopRateLimitTimer(fs) EXCEPT
        !.rateLimitUntil = t + retryAfterSeconds * 1000,
        !.rateLimitTimerId = TRUE]

\* startCooldownTimer
startCooldownTimer(fs) == [stopCooldownTimer(fs) EXCEPT !.cooldownTimerId = TRUE]

\* closeAppOverlays
closeAppOverlays(w) ==
    [w EXCEPT !.fetchState =
                  stopRateLimitTimer(stopCooldownTimer(
                      [w.fetchState EXCEPT !.shouldStop = TRUE,
                                           !.inProgress = FALSE])),
              !.ui.progressHidden = TRUE,
              !.ui.toasts = <<>>]

\* setScreen(screen)
setScreen(w, screen) ==
    IF screen = "login"
    THEN closeAppOverlays([w EXCEPT !.ui.screen = "login"])
    ELSE [w EXCEPT !.ui.screen = screen]

showToast(w, toast) == [w EXCEPT !.ui.toasts = Append(@, toast)]

\* The outcomes of the behaviours with reruns: a widget, or an error.
RerunOutcomes == {Widget(NullH, H(0)), Rejected("Error", NullH)}

RECURSIVE RerunSeqs(_)
RerunSeqs(n) ==
    IF n = 0 THEN {<<>>}
    ELSE {Append(s, o) : s \in RerunSeqs(n - 1), o \in RerunOutcomes}

\* Sequences of n outcomes.
RECURSIVE OutcomeSeqs(_)
OutcomeSeqs(n) ==
    IF n = 0 THEN {<<>>}
    ELSE {Append(s, o) : s \in OutcomeSeqs(n - 1), o \in Outcomes}

\* The ids of `ids` (in order) that satisfy keep.
RECURSIVE FilterSeq(_, _)
FilterSeq(ids, keep) ==
    IF ids = <<>> THEN <<>>
    ELSE IF Head(ids) \in keep THEN <<Head(ids)>> \o FilterSeq(Tail(ids), keep)
    ELSE FilterSeq(Tail(ids), keep)

\* A faulty variant of Slice: a batch takes one target more, which the next
\* batch takes again.
SliceWide(targets, i) ==
    SubSeq(targets, i + 1,
           IF i + FETCH_BATCH_SIZE + 1 < Len(targets)
           THEN i + FETCH_BATCH_SIZE + 1 ELSE Len(targets))

\* targets.slice(i, i + FETCH_BATCH_SIZE)
Slice(targets, i) ==
    SubSeq(targets, i + 1,
           IF i + FETCH_BATCH_SIZE < Len(targets) THEN i + FETCH_BATCH_SIZE
           ELSE Len(targets))

\* A faulty variant of StopsBatch: the stop flag is not looked at between
\* results.
StopsBatchOnRateLimitOnly(w) == w.run.rateLimited

\* saveUserData: localStorage.setItem throws when the quota is used up, and
\* nothing between it and the caller of performWidgetFetch catches.
saveUserDataThrows(w) == w.ui.storageFull

\* performWidgetFetch left by an exception: its promise rejects.
Rejects(w) == [w EXCEPT !.run.pc = "thrown"]

\* if (fetchState.shouldStop || rateLimited) break;
StopsBatch(w) == w.fetchState.shouldStop \/ w.run.rateLimited

\* processBatch, lines 230-244: a fulfilled result.
RecordWidget(w, guildId, widget, t) ==
    LET hasData == widget.instant_invite.present \/ widget.presence_count.present
        marked == [w EXCEPT !.run.anySuccess = TRUE]
    IN  IF saveUserDataThrows(w) THEN Rejects(marked)
        ELSE [marked EXCEPT
                 !.ui.widgetCache[guildId] =
                     CacheEntry(widget.instant_invite, widget.presence_count, t),
                 !.run.widgetsEnabled = IF hasData THEN @ + 1 ELSE @,
                 !.run.widgetsDisabled = IF hasData THEN @ ELSE @ + 1,
                 !.run.completed = @ + 1]

\* processBatch, lines 247-253: an AuthError.
OnAuthError(w) ==
    setScreen([w EXCEPT !.ui.progressHidden = TRUE,
                        !.fetchState.inProgress = FALSE], "login")

\* A faulty variant of OnRateLimitError: the retry-after hint is ignored.
OnRateLimitErrorNoTimer(w, retryAfter, t) ==
    showToast([w EXCEPT !.run.rateLimited = TRUE, !.ui.barStopped = TRUE],
              Toast("rate-limited", 0, 0, 0, 0))

\* processBatch, lines 254-266: a RateLimitError.
OnRateLimitError(w, retryAfter, t) ==
    LET marked == [w EXCEPT !.run.rateLimited = TRUE, !.ui.barStopped = TRUE]
    IN  IF retryAfter.present /\ retryAfter.value > 0
        THEN showToast([marked EXCEPT
                           !.fetchState =
                               startRateLimitTimer(@, retryAfter.value, t)],
                       Toast("rate-limited", 0, 0, 0, retryAfter.value))
        ELSE showToast(marked, Toast("rate-limited", 0, 0, 0, 0))

\* A faulty variant of OnOtherError: the error also ends the run.
OnOtherErrorStops(w) ==
    [w EXCEPT !.run.errors = @ + 1, !.run.completed = @ + 1,
              !.fetchState.shouldStop = TRUE]

\* processBatch, lines 267-269: any other error.
OnOtherError(w) == [w EXCEPT !.run.errors = @ + 1, !.run.completed = @ + 1]

\* A faulty variant of ProcessResults: the results are gone through from the
\* last to the first.
RECURSIVE ResultsFromLast(_, _, _, _, _)
ResultsFromLast(w, batch, results, j, t) ==
    IF j < 1 \/ StopsBatch(w) THEN [world |-> w, exit |-> ""]
    ELSE LET result == results[j]
         IN  CASE result.kind = "widget" ->
                    LET recorded == RecordWidget(w, batch[j], result, t)
                    IN  IF recorded.run.pc = "thrown"
                        THEN [world |-> recorded, exit |-> "thrown"]
                        ELSE ResultsFromLast(recorded, batch, results, j - 1, t)
               [] result.kind = "AuthError" ->
                    [world |-> OnAuthError(w), exit |-> "AuthError"]
               [] result.kind = "RateLimitError" ->
                    [world |-> OnRateLimitError(w, result.retryAfter, t),
                     exit |-> "RateLimitError"]
               [] OTHER ->
                    ResultsFromLast(OnOtherError(w), batch, results, j - 1, t)

ProcessResultsReversed(w, batch, results, k, t) ==
    ResultsFromLast(w, batch, results, Len(results), t)

\* processBatch, lines 227-270: the loop over the results from the k-th on.
\* exit tells how it ended: "" at the end of the loop or at a break, else
\* the error it returned on.
RECURSIVE ProcessResults(_, _, _, _, _)
ProcessResults(w, batch, results, k, t) ==
    IF k > Len(results) \/ StopsBatch(w) THEN [world |-> w, exit |-> ""]
    ELSE LET result == results[k]
         IN  CASE result.kind = "widget" ->
                    LET recorded == RecordWidget(w, batch[k], result, t)
                    IN  IF recorded.run.pc = "thrown"
                        THEN [world |-> recorded, exit |-> "thrown"]
                        ELSE ProcessResults(recorded, batch, results, k + 1, t)
               [] result.kind = "AuthError" ->
                    [world |-> OnAuthError(w), exit |-> "AuthError"]
               [] result.kind = "RateLimitError" ->
                    [world |-> OnRateLimitError(w, result.retryAfter, t),
                     exit |-> "RateLimitError"]
               [] OTHER ->
                    ProcessResults(OnOtherError(w), batch, results, k + 1, t)

\* processBatch(batch) from the settling of its fetches on.
processBatch(w, batch, results, t) ==
    ProcessResults(w, batch, results, 1, t).world

\* performWidgetFetch, lines 294-322: what follows the loop.
Complete(w, t) ==
    LET hidden == [w EXCEPT !.ui.progressHidden = TRUE,
                            !.fetchState.inProgress = FALSE]
        stamped == IF hidden.run.anySuccess
                   THEN IF saveUserDataThrows(hidden) THEN Rejects(hidden)
                        ELSE [hidden EXCEPT
                                 !.ui.lastFetchTimestamp = t,
                                 !.fetchState = startCooldownTimer(@)]
                   ELSE hidden
        r == stamped.run
        toasted ==
            IF r.rateLimited THEN stamped
            ELSE IF stamped.fetchState.shouldStop
            THEN showToast(stamped, Toast("stopped", r.widgetsEnabled,
                                          r.widgetsDisabled, r.errors, 0))
            ELSE showToast(stamped, Toast("complete", r.widgetsEnabled,
                                          r.widgetsDisabled, r.errors, 0))
    IN  IF stamped.run.pc = "thrown" THEN stamped
        ELSE [toasted EXCEPT !.run.pc = "ended", !.ui.renders = @ + 1]

\* A faulty variant of LoopStops: the stop flag is not looked at between
\* batches.
LoopStopsOnRateLimitOnly(w) == w.run.rateLimited

\* if (fetchState.shouldStop || rateLimited), line 280
LoopStops(w) == w.fetchState.shouldStop \/ w.run.rateLimited

\* performWidgetFetch, lines 279-286: the loop at index i, up to the fetches
\* of a batch or to the end of the run.
LoopAt(w, i, t) ==
    IF i < Len(w.run.targets)
    THEN IF LoopStops(w)
         THEN Complete([w EXCEPT !.ui.barStopped = TRUE, !.run.i = i], t)
         ELSE [w EXCEPT !.run.pc = "inflight",
                        !.run.i = i,
                        !.run.issued = @ + 1,
                        !.run.fetches = @ + Len(Slice(w.run.targets, i))]
    ELSE Complete([w EXCEPT !.run.i = i], t)

\* A faulty variant of AfterBatch: the loop goes on without the delay.
AfterBatchNoDelay(w, t) ==
    IF w.run.pc = "thrown" THEN w
    ELSE LoopAt(w, w.run.i + FETCH_BATCH_SIZE, t)

\* performWidgetFetch, lines 288-292: after a batch, the delay or the next
\* turn of the loop.
AfterBatch(w, t) ==
    IF w.run.pc = "thrown" THEN w
    ELSE IF /\ w.run.i + FETCH_BATCH_SIZE < Len(w.run.targets)
       /\ ~w.fetchState.shouldStop
       /\ ~w.run.rateLimited
    THEN [w EXCEPT !.run.pc = "delay"]
    ELSE LoopAt(w, w.run.i + FETCH_BATCH_SIZE, t)

\* A faulty variant of Targets: the cache is not looked at.
TargetsEverything(force, cache) == FilterSeq([n \in 1..MaxGuilds |-> n], Guilds)

\* A faulty variant of Targets: the test of the cache is inverted.
TargetsCachedOnes(force, cache) ==
    FilterSeq([n \in 1..MaxGuilds |-> n],
              IF force THEN Guilds ELSE {g \in Guilds : cache[g].cached})

\* serverIds, or those of them without a cache entry.
Targets(force, cache) ==
    FilterSeq([n \in 1..MaxGuilds |-> n],
              IF force THEN Guilds ELSE {g \in Guilds : ~cache[g].cached})

\* performWidgetFetch, lines 181-217 and the first turn of the loop.
StartWorld(w, force, t) ==
    LET shown == [w EXCEPT
                     !.fetchState.shouldStop = FALSE,
                     !.fetchState.inProgress = TRUE,
                     !.ui.progressHidden = FALSE,
                     !.ui.barStopped = FALSE,
                     !.ui.runs = @ + 1,
                     !.run = [NoRun EXCEPT !.force = force]]
        cleared == IF force
                   THEN [shown EXCEPT
                            !.ui.widgetCache = [g \in Guilds |-> NoEntry]]
                   ELSE shown
        targets == Targets(force, cleared.ui.widgetCache)
        begun == [cleared EXCEPT !.run.targets = targets,
                                 !.run.total = Len(targets)]
    IN  IF force /\ saveUserDataThrows(shown) THEN Rejects(shown)
        ELSE IF Len(targets) = 0
        THEN showToast([begun EXCEPT !.ui.progressHidden = TRUE,
                                     !.fetchState.inProgress = FALSE,
                                     !.run.pc = "ended"],
                       Toast("all-cached", 0, 0, 0, 0))
        ELSE LoopAt(begun, 0, t)

NotOrchestrator ==
    <<cvars, ret, events, slot, grants, pc, resp, answer, releases, given, svars,
      crypt>>

Becomes(w) ==
    /\ fetchState' = w.fetchState
    /\ run' = w.run
    /\ ui' = w.ui

\* fetchStart click: performWidgetFetch() up to its first await.
StartFetch(force) ==
    /\ run.pc = "idle"
    /\ Becomes(StartWorld(World(fetchState, run, ui), force, now))
    /\ inflight' = IF run'.pc = "inflight" THEN Slice(run'.targets, run'.i)
                   ELSE <<>>
    /\ UNCHANGED now
    /\ UNCHANGED NotOrchestrator

\* fetchStart click after a run has ended: performWidgetFetch() once more.
StartAgain(force) ==
    /\ run.pc = "ended"
    /\ ui.runs < MaxRuns
    /\ Becomes(StartWorld(World(fetchState, run, ui), force, now))
    /\ inflight' = IF run'.pc = "inflight" THEN Slice(run'.targets, run'.i)
                   ELSE <<>>
    /\ UNCHANGED now
    /\ UNCHANGED NotOrchestrator

\* fetchInlineStop click.
StopClick ==
    /\ run.pc \in {"inflight", "delay"}
    /\ ~fetchState.shouldStop
    /\ fetchState' = [fetchState EXCEPT !.shouldStop = TRUE]
    /\ UNCHANGED <<run, inflight, ui, now>>
    /\ UNCHANGED NotOrchestrator

\* const results = await Promise.allSettled(batch.map(...)), line 220
Settled(batch, results) ==
    [k \in 1..Len(results) |-> [guildId |-> batch[k], result |-> results[k]]]

\* Promise.allSettled resolves: the results are processed, and the run goes
\* on to its next await or to its end.
BatchSettled(results) ==
    /\ run.pc = "inflight"
    /\ Len(results) = Len(inflight)
    /\ Becomes(AfterBatch(processBatch(World(fetchState,
                                             [run EXCEPT !.settled =
                                                 Settled(inflight, results)],
                                             ui),
                                       inflight, results, now), now))
    /\ inflight' = IF run'.pc = "inflight" THEN Slice(run'.targets, run'.i)
                   ELSE <<>>
    /\ UNCHANGED now
    /\ UNCHANGED NotOrchestrator

\* delay(FETCH_BATCH_DELAY_MS) resolves: the next turn of the loop.
DelayElapsed ==
    /\ run.pc = "delay"
    /\ now' = now + FETCH_BATCH_DELAY_MS
    /\ Becomes(LoopAt(World(fetchState, run, ui),
                      run.i + FETCH_BATCH_SIZE, now'))
    /\ inflight' = IF run'.pc = "inflight" THEN Slice(run'.targets, run'.i)
                   ELSE <<>>
    /\ UNCHANGED NotOrchestrator

\* The widget caches the page may hold when a run starts.
InitialCaches ==
    { [g \in Guilds |-> NoEntry],
      [g \in Guilds |-> IF g = 1 THEN CacheEntry(NullH, H(0), StartNow - 1000)
                        ELSE NoEntry],
      [g \in Guilds |-> CacheEntry(NullH, H(0), StartNow - 1000)] }

\* ------------------------------------------------------------ specifications
\* The coordinator as its constructor leaves it, and handlers that have not
\* started.
Constructed ==
    /\ rateLimitState = getDefaultState
    /\ queue = <<>>
    /\ activeRequests = 0
    /\ now = StartNow
    /\ timers = {}
    /\ nextId = 1
    /\ promises = <<>>
    /\ ret = Void("constructor")
    /\ events = <<>>
    /\ pc = [h \in Handlers |-> "idle"]
    /\ slot = [h \in Handlers |-> Void("acquireSlot")]
    /\ resp = [h \in Handlers |-> NoResponse]
    /\ answer = [h \in Handlers |-> 0]
    /\ grants = [h \in Handlers |-> 0]
    /\ releases = [h \in Handlers |-> 0]
    /\ spc = [q \in SessionRequests |-> "idle"]
    /\ sloc = [q \in SessionRequests |-> NoLocals]
    /\ out = [q \in SessionRequests |-> NoHttpResponse]
    /\ nextToken = 1
    /\ nextIv = 3
    /\ nextUuid = 2
    /\ fetchState = NoFetchState
    /\ run = NoRun
    /\ inflight = <<>>

Init ==
    /\ Constructed
    /\ crypt = NoCrypt
    /\ given = NoHeaders
    /\ store = EmptyStore
    /\ ui = Page([g \in Guilds |-> NoEntry])

\* The same, for each choice of the headers under study.
HeaderInit ==
    /\ Constructed
    /\ crypt = NoCrypt
    /\ given \in AllHeaders
    /\ store = EmptyStore
    /\ ui = Page([g \in Guilds |-> NoEntry])

\* Responses that carry neither x-ratelimit-limit nor x-ratelimit-remaining.
QuietHeaders ==
    { NoHeaders,
      [NoHeaders EXCEPT !.reset = H(<<"1", "0", "7", ".", "0", "0", "0">>)],
      [FullHeaders EXCEPT !.limit = NullH, !.remaining = NullH] }

\* The same, for each response without limit and remaining.
QuietInit ==
    /\ Constructed
    /\ crypt = NoCrypt
    /\ given \in QuietHeaders
    /\ store = EmptyStore
    /\ ui = Page([g \in Guilds |-> NoEntry])

\* The same, for each session the store may hold.
SessionInit ==
    /\ Constructed
    /\ crypt = NoCrypt
    /\ given = NoHeaders
    /\ store \in InitialStores
    /\ ui = Page([g \in Guilds |-> NoEntry])

\* The same, for each widget cache the page may hold.
OrchestratorInit ==
    /\ Constructed
    /\ crypt = NoCrypt
    /\ given = NoHeaders
    /\ store = EmptyStore
    /\ ui \in {Page(c) : c \in InitialCaches}

\* Slots checked out at most where getEffectiveRemaining is applied to
\* states of every kind.
MaxActive == 4

\* The rate-limit states getEffectiveRemaining meets: limits and remainders
\* small and large, the reset time unknown, passed, just reached or ahead,
\* the last update never, older than the staleness window, as old, or now.
EffectiveStates ==
    {[getDefaultState EXCEPT !.limit = l, !.remaining = r, !.resetAt = ra,
                             !.lastUpdated = lu] :
        l \in {1, 5, 10}, r \in {0, 3, 8},
        ra \in {0, StartNow - 1000, StartNow, StartNow + QUEUE_TIMEOUT_MS},
        lu \in {0, StartNow - STALE_STATE_MS - 1, StartNow - STALE_STATE_MS,
                StartNow}}

\* The coordinator in each of these states, with some slots checked out.
EffectiveInit ==
    /\ rateLimitState \in EffectiveStates
    /\ activeRequests \in 0..MaxActive
    /\ queue = <<>>
    /\ now = StartNow
    /\ timers = {}
    /\ nextId = 1
    /\ promises = <<>>
    /\ ret = Void("constructor")
    /\ events = <<>>
    /\ pc = [h \in Handlers |-> "idle"]
    /\ slot = [h \in Handlers |-> Void("acquireSlot")]
    /\ resp = [h \in Handlers |-> NoResponse]
    /\ answer = [h \in Handlers |-> 0]
    /\ grants = [h \in Handlers |-> 0]
    /\ releases = [h \in Handlers |-> 0]
    /\ spc = [q \in SessionRequests |-> "idle"]
    /\ sloc = [q \in SessionRequests |-> NoLocals]
    /\ out = [q \in SessionRequests |-> NoHttpResponse]
    /\ nextToken = 1
    /\ nextIv = 3
    /\ nextUuid = 2
    /\ fetchState = NoFetchState
    /\ run = NoRun
    /\ inflight = <<>>
    /\ crypt = NoCrypt
    /\ given = NoHeaders
    /\ store = EmptyStore
    /\ ui = Page([g \in Guilds |-> NoEntry])

\* A plaintext and a secret, for each plaintext and each secret.
CryptoInit ==
    /\ Constructed
    /\ given = NoHeaders
    /\ store = EmptyStore
    /\ ui = Page([g \in Guilds |-> NoEntry])
    /\ crypt \in {Crypt("plain", p, k, PlainText(<<>>), "none", <<>>,
                        Decrypted(<<>>)) :
                      p \in Texts(MaxTextLen), k \in CryptoSecrets}

\* The same, with a localStorage that has room or is full.
StorageInit ==
    /\ Constructed
    /\ crypt = NoCrypt
    /\ given = NoHeaders
    /\ store = EmptyStore
    /\ ui \in {[Page(c) EXCEPT !.storageFull = f] :
                   c \in InitialCaches, f \in BOOLEAN}

\* Calls made by callers that are no widget handlers.
CallAcquireSlot(maxCalls) ==
    AcquireSlot(0, maxCalls) /\ UNCHANGED now /\ UNCHANGED hvars

CallReleaseSlot ==
    ReleaseSlot(0) /\ UNCHANGED now /\ UNCHANGED hvars

CallUpdateFromResponse(h) ==
    UpdateFromResponse(h) /\ UNCHANGED now /\ UNCHANGED hvars

CallHandleRateLimited(r) ==
    HandleRateLimited(r) /\ UNCHANGED now /\ UNCHANGED hvars

\* this.getEffectiveRemaining(), its value kept as what the call returned.
CallGetEffectiveRemaining ==
    /\ ret.op = "constructor"
    /\ ret' = Returned("getEffectiveRemaining",
                       getEffectiveRemaining(rateLimitState, activeRequests, now))
    /\ events' = <<>>
    /\ UNCHANGED <<cvars, now, slot, grants>>
    /\ UNCHANGED hvars

EffectiveNext == CallGetEffectiveRemaining

EffectiveSpec == EffectiveInit /\ [][EffectiveNext]_vars

\* The coordinator told of 429s with a short and a long retry-after, with no
\* response headers fed to it, while the clock runs past the staleness
\* window.
MaxLongTimeouts == 9
LongRetryAfters == {7, 70}

RateLimitedNext ==
    \/ CallAcquireSlot(MaxCalls)
    \/ CallReleaseSlot
    \/ \E r \in LongRetryAfters : CallHandleRateLimited(r)
    \/ \E tm \in timers : TimerFire(tm)
    \/ Tick(QUEUE_TIMEOUT_MS, StartNow + MaxLongTimeouts * QUEUE_TIMEOUT_MS)

RateLimitedSpec == Init /\ [][RateLimitedNext]_vars

\* The coordinator fed no response but ones without limit and remaining,
\* while callers come and go and 429s are reported.
QuietNext ==
    \/ CallAcquireSlot(MaxCalls)
    \/ CallReleaseSlot
    \/ CallUpdateFromResponse(given)
    \/ \E r \in RetryAfters : CallHandleRateLimited(r)
    \/ \E tm \in timers : TimerFire(tm)
    \/ Tick(QUEUE_TIMEOUT_MS, MaxNow)

QuietSpec == QuietInit /\ [][QuietNext]_vars

\* The coordinator under every call, in any order, as time passes.
Next ==
    \/ CallAcquireSlot(MaxCalls)
    \/ CallReleaseSlot
    \/ \E h \in Headers : CallUpdateFromResponse(h)
    \/ \E r \in RetryAfters : CallHandleRateLimited(r)
    \/ \E tm \in timers : TimerFire(tm)
    \/ Tick(QUEUE_TIMEOUT_MS, MaxNow)

Spec == Init /\ [][Next]_vars

\* The coordinator under acquireSlot and releaseSlot calls alone.
AcqRelNext ==
    \/ CallAcquireSlot(MaxCalls)
    \/ CallReleaseSlot
    \/ \E tm \in timers : TimerFire(tm)
    \/ Tick(QUEUE_TIMEOUT_MS, MaxNow)

AcqRelSpec == Init /\ [][AcqRelNext]_vars

\* A 429 reported before any caller came, a burst of callers at the first
\* instant, enough to fill the queue, then one queue timeout of time.
QueueNext ==
    \/ (now = StartNow /\ CallAcquireSlot(MaxCallsQ))
    \/ CallReleaseSlot
    \/ (nextId = 1 /\ activeRequests = 0 /\ now = StartNow /\ CallHandleRateLimited(7))
    \/ \E tm \in timers : TimerFire(tm)
    \/ Tick(QUEUE_TIMEOUT_MS, StartNow + QUEUE_TIMEOUT_MS)

QueueSpec == Init /\ [][QueueNext]_vars

\* The rate-limit state fed the headers under study, among other responses
\* and 429 reports.
HeaderNext ==
    \/ CallUpdateFromResponse(given)
    \/ \E h \in Headers \ {NoHeaders} : CallUpdateFromResponse(h)
    \/ \E r \in RetryAfters : CallHandleRateLimited(r)
    \/ Tick(QUEUE_TIMEOUT_MS, StartNow + QUEUE_TIMEOUT_MS)

HeaderSpec == HeaderInit /\ [][HeaderNext]_vars

\* Widget requests served concurrently through the coordinator.
WidgetNext ==
    \/ \E h \in Handlers :
          \/ HandlerAcquire(h)
          \/ HandlerCacheHit(h)
          \/ HandlerProceed(h)
          \/ \E r \in Responses : HandlerFetch(h, r)
          \/ HandlerUpdate(h)
          \/ HandlerNotify(h)
          \/ HandlerRelease(h)
    \/ \E tm \in timers : TimerFire(tm)
    \/ Tick(QUEUE_TIMEOUT_MS, MaxNow)

WidgetSpec == Init /\ [][WidgetNext]_vars

\* Requests served concurrently through the session vault, as a minute
\* passes.
MaxMinutes == 1

SessionNext ==
    \/ \E q \in SessionRequests :
          \/ \E r \in BrowserRequests : ContextBegin(q, r)
          \/ ContextLoad(q)
          \/ ContextPersist(q)
          \/ \E a \in GrantAnswers : ContextGrant(q, a)
          \/ ContextPut(q)
          \/ ContextInvalidate(q)
          \/ MeContext(q)
          \/ \E st \in ProviderStatuses : MeCall(q, st)
          \/ \E a \in GrantAnswers : MeGrant(q, a)
          \/ MePut(q)
          \/ \E st \in ProviderStatuses : MeRecall(q, st)
          \/ \E secure \in BOOLEAN : Login(q, secure)
          \/ \E r \in BrowserRequests : Logout(q, r)
    \/ Tick(60000, StartNow + MaxMinutes * 60000)

SessionSpec == SessionInit /\ [][SessionNext]_vars

\* A token encrypted, kept or altered, and decrypted.
CryptoNext ==
    \/ \E iv \in CryptoIvs : Encrypt(iv)
    \/ \E t \in Tampers : Tamper(t)
    \/ \E k \in CryptoSecrets : Decrypt(k)

CryptoSpec == CryptoInit /\ [][CryptoNext]_vars

\* One run of the fetch orchestrator, which the user may stop.
OrchestratorNext ==
    \/ \E force \in BOOLEAN : StartFetch(force)
    \/ StopClick
    \/ \E results \in OutcomeSeqs(Len(inflight)) : BatchSettled(results)
    \/ DelayElapsed

OrchestratorSpec == OrchestratorInit /\ [][OrchestratorNext]_vars

\* The orchestrator with a storage that may be full.
StorageSpec == StorageInit /\ [][OrchestratorNext]_vars

\* Runs of the orchestrator one after the other.
RerunNext ==
    \/ \E force \in BOOLEAN : StartFetch(force) \/ StartAgain(force)
    \/ StopClick
    \/ \E results \in RerunSeqs(Len(inflight)) : BatchSettled(results)
    \/ DelayElapsed

RerunSpec == OrchestratorInit /\ [][RerunNext]_vars

\* ------------------------------------------------------------------- claims
QueueIds == {queue[i].id : i \in 1..Len(queue)}

\* C1: under acquireSlot and releaseSlot calls alone (releaseSlot with no
\* slot held among them), activeRequests is never negative and never
\* exceeds limit.
C1_ActiveWithinLimit ==
    /\ activeRequests >= 0
    /\ activeRequests <= rateLimitState.limit

\* releaseSlot has just run and left no slot checked out.
C1_Witness ==
    /\ ret.op = "releaseSlot"
    /\ activeRequests = 0
    /\ queue = <<>>

\* C2: an acquireSlot call made while effective remaining > 0 returns
\* allowed = true at once, enqueues nothing and adds exactly 1 to
\* activeRequests; on a coordinator never updated, a call is granted at once
\* exactly while fewer than 3 slots are out, so three calls in a row are
\* granted, activeRequests becomes 3, and a fourth is not granted at once.
C2_ImmediateGrant ==
    [][ret'.op = "acquireSlot" =>
         /\ getEffectiveRemaining(rateLimitState, activeRequests, now) > 0 =>
               /\ ret' = Returned("acquireSlot", Granted(NoId))
               /\ queue' = queue
               /\ promises' = promises
               /\ timers' = timers
               /\ activeRequests' = activeRequests + 1
         /\ rateLimitState = getDefaultState =>
               IF activeRequests < 3
               THEN /\ ret'.status = "returned" /\ ret'.value.allowed
                    /\ activeRequests' = activeRequests + 1
                    /\ activeRequests' <= 3
               ELSE /\ ~(ret'.status = "returned" /\ ret'.value.allowed)
                    /\ activeRequests' = activeRequests]_vars

\* The fourth call on a coordinator never updated: three slots are out and
\* the caller waits in the queue.
C2_Witness ==
    /\ rateLimitState = getDefaultState
    /\ activeRequests = 3
    /\ ret.op = "acquireSlot"
    /\ ret.status = "suspended"

\* C3: queued callers are granted in the order they were enqueued: when a
\* step grants queued callers, it grants them oldest first, and no caller
\* enqueued before a granted one is still waiting after the step.
C3_GrantsAreFifo ==
    [][\A i \in 1..Len(events') :
          events'[i].value.allowed =>
             /\ \A j \in 1..(i - 1) : events'[j].id < events'[i].id
             /\ \A w \in (DOMAIN promises') \cup {queue'[k].id : k \in 1..Len(queue')} :
                   w > events'[i].id]_vars

\* A queue advance granted the oldest caller while a newer one stays queued.
C3_Witness ==
    /\ Len(events) > 0
    /\ events[1].value.allowed
    /\ Len(queue) > 0
    /\ ret.op \in {"releaseSlot", "updateFromResponse"}

IsGrant(v) == v.allowed /\ v.error = Undefined
IsQueueFull(v) == ~v.allowed /\ v.error = QUEUE_FULL /\ v.waitMs >= 0
IsQueueTimeout(v) == ~v.allowed /\ v.error = QUEUE_TIMEOUT /\ v.waitMs >= 0

\* C4: acquireSlot answers with data, never an exception: what a call
\* returns at once is a grant or a queue-full report, what a queued call is
\* resolved with is a grant or a queue-timeout report, the two reports
\* differ in their error, each resolution settles a promise that was
\* unresolved, and a step that reports allowed = false leaves
\* activeRequests as it was.
C4_ResultsAreData ==
    [][/\ (ret'.op = "acquireSlot" /\ ret'.status = "returned") =>
             /\ IsGrant(ret'.value) \/ IsQueueFull(ret'.value)
             /\ ~ret'.value.allowed => activeRequests' = activeRequests
       /\ (ret'.op = "acquireSlot" /\ ret'.status = "suspended") =>
             /\ ret'.promise \in DOMAIN promises'
             /\ ret'.promise \notin DOMAIN promises
       /\ \A i \in 1..Len(events') :
             /\ IsGrant(events'[i].value) \/ IsQueueTimeout(events'[i].value)
             /\ ~(IsQueueFull(events'[i].value) /\ IsQueueTimeout(events'[i].value))
             /\ events'[i].id \in DOMAIN promises
             /\ events'[i].id \notin DOMAIN promises'
             /\ ~events'[i].value.allowed => activeRequests' = activeRequests
       /\ QUEUE_FULL # QUEUE_TIMEOUT]_vars

\* The oldest caller of a queue that was full has timed out.
C4_Witness ==
    /\ ret.op = "timeout"
    /\ Len(events) = 1
    /\ IsQueueTimeout(events[1].value)
    /\ Len(queue) = MAX_QUEUE_SIZE - 1

\* C5: a caller is never left waiting more than the queue timeout: every
\* unresolved call was made at most 7000 ms ago, waits in the queue, and
\* has a timer armed for 7000 ms after the call that has not been passed.
C5_ResolvedWithinTimeout ==
    \A id \in DOMAIN promises :
        /\ now - promises[id].at <= 7000
        /\ id \in QueueIds
        /\ [id |-> id, due |-> promises[id].at + 7000] \in timers

\* A caller was resolved by its timeout while another still waits.
C5_Witness ==
    /\ ret.op = "timeout"
    /\ Len(events) = 1
    /\ events[1].value.error = QUEUE_TIMEOUT
    /\ DOMAIN promises # {}

\* C6: the queue never holds more than 150 entries, and acquireSlot called
\* with no capacity and 150 entries queued returns allowed = false with the
\* queue-full error and the wait until the reset (0 when the reset is not
\* ahead, else the time to it plus 100 ms), enqueues nothing and leaves
\* activeRequests and the queue as they were.
C6_QueueBounded ==
    [][/\ Len(queue') <= 150
       /\ (/\ ret'.op = "acquireSlot"
           /\ getEffectiveRemaining(rateLimitState, activeRequests, now) <= 0
           /\ Len(queue) >= 150) =>
             /\ ret' = Returned("acquireSlot",
                          Denied(QUEUE_FULL,
                                 IF rateLimitState.resetAt <= now THEN 0
                                 ELSE rateLimitState.resetAt - now + 100))
             /\ queue' = queue
             /\ activeRequests' = activeRequests
             /\ promises' = promises
             /\ timers' = timers
             /\ nextId' = nextId]_vars

\* A caller was turned away from a full queue and told to wait for a reset
\* that lies ahead.
C6_Witness ==
    /\ ret.op = "acquireSlot"
    /\ ret.status = "returned"
    /\ ret.value.error = QUEUE_FULL
    /\ ret.value.waitMs > 0
    /\ Len(queue) = 150

Holding == {h \in Handlers : grants[h] - releases[h] = 1}

\* C7: a widget handler calls the provider only while it holds a granted
\* slot and releases every granted slot exactly once; a handler that was
\* refused makes no provider call, never calls releaseSlot and answers 429;
\* activeRequests is the number of handlers between grant and release.
C7_SlotHeldAroundFetch ==
    /\ \A h \in Handlers :
          /\ grants[h] \in {0, 1}
          /\ releases[h] \in {0, 1}
          /\ releases[h] <= grants[h]
          /\ pc[h] \in {"fetch", "update", "notify", "release"} =>
                grants[h] = 1 /\ releases[h] = 0
          /\ resp[h] # NoResponse => grants[h] = 1
          /\ pc[h] = "done" => releases[h] = grants[h]
          /\ (slot[h].status = "returned" /\ ~slot[h].value.allowed) =>
                /\ pc[h] \in {"wait", "done"}
                /\ resp[h] = NoResponse
                /\ releases[h] = 0
                /\ pc[h] = "done" => answer[h] = 429
    /\ activeRequests = Cardinality(Holding)

\* A handler that waited in the queue was granted, got a 429 with a
\* retry-after hint from the provider and has released its slot.
C7_Witness ==
    \E h \in Handlers :
        /\ pc[h] = "done"
        /\ slot[h].value.queueId # NoId
        /\ resp[h].status = 429
        /\ answer[h] = 429
        /\ releases[h] = 1

\* C8: updateFromResponse given neither limit nor remaining changes no
\* field of the rate-limit state, whatever other headers are present.
C8_NoMeaningfulHeaders ==
    [][(/\ CallUpdateFromResponse(given)
        /\ ~given.limit.present
        /\ ~given.remaining.present) =>
          rateLimitState' = rateLimitState]_vars

\* Headers with a reset but neither limit nor remaining were fed to a
\* coordinator that had been updated earlier: lastUpdated stayed behind.
C8_Witness ==
    /\ ret.op = "updateFromResponse"
    /\ ~given.limit.present
    /\ ~given.remaining.present
    /\ given.reset.present
    /\ given.bucket.present
    /\ rateLimitState.lastUpdated # 0
    /\ rateLimitState.lastUpdated < now
    /\ rateLimitState.resetAt = 0
    /\ ~rateLimitState.bucket.present

\* The number a header of the inputs writes.
IntOf(v) ==
    CASE v = <<"1", "0">> -> 10
      [] v = <<"1">> -> 1
      [] v = <<"8">> -> 8
      [] v = <<"0">> -> 0

\* The thousandths of a second a header of the inputs writes.
ThousandthsOf(v) ==
    CASE v = <<"1", "0", "7", ".", "0", "0", "0">> -> 107000
      [] v = <<"5", ".", "0">> -> 5000

\* C9: updateFromResponse given limit or remaining sets every field whose
\* header is present to the header's value (limit and remaining as
\* integers, reset and reset-after as numbers, bucket and scope as given,
\* isGlobal true exactly for "true"), keeps every other field, and sets
\* lastUpdated to now.
C9_MeaningfulHeaders ==
    [][(/\ CallUpdateFromResponse(given)
        /\ given.limit.present \/ given.remaining.present) =>
          /\ rateLimitState'.limit =
                IF given.limit.present THEN IntOf(given.limit.value)
                ELSE rateLimitState.limit
          /\ rateLimitState'.remaining =
                IF given.remaining.present THEN IntOf(given.remaining.value)
                ELSE rateLimitState.remaining
          /\ rateLimitState'.resetAt =
                IF given.reset.present THEN ThousandthsOf(given.reset.value)
                ELSE rateLimitState.resetAt
          /\ rateLimitState'.resetAfter =
                IF given.resetAfter.present THEN ThousandthsOf(given.resetAfter.value)
                ELSE rateLimitState.resetAfter
          /\ rateLimitState'.bucket =
                IF given.bucket.present THEN given.bucket ELSE rateLimitState.bucket
          /\ rateLimitState'.scope =
                IF given.scope.present THEN given.scope ELSE rateLimitState.scope
          /\ rateLimitState'.isGlobal =
                IF given.global.present
                THEN given.global = H(<<"t", "r", "u", "e">>)
                ELSE rateLimitState.isGlobal
          /\ rateLimitState'.lastUpdated = now]_vars

\* Headers with limit 10, a scope and global "false", and nothing else, were
\* merged at a later time into a state that had kept its remaining.
C9_Witness ==
    /\ ret.op = "updateFromResponse"
    /\ given.limit = H(<<"1", "0">>)
    /\ ~given.remaining.present
    /\ given.global = H(<<"f", "a", "l", "s", "e">>)
    /\ ~given.reset.present
    /\ ~given.bucket.present
    /\ given.scope.present
    /\ rateLimitState.limit = 10
    /\ rateLimitState.remaining = DEFAULT_RATE_LIMIT - RESERVE_BUFFER
    /\ ~rateLimitState.bucket.present
    /\ rateLimitState.scope = given.scope
    /\ ~rateLimitState.isGlobal
    /\ rateLimitState.lastUpdated = now
    /\ now > StartNow

\* C10: handleRateLimited(r) sets remaining = 0, resetAt = now/1000 + r,
\* resetAfter = r and lastUpdated = now and changes nothing else: the other
\* fields, activeRequests and the queue stay, and no caller is resolved.
C10_HandleRateLimited ==
    [][ret'.op = "handleRateLimited" =>
         /\ \E r \in RetryAfters :
               rateLimitState' = [rateLimitState EXCEPT
                                     !.remaining = 0,
                                     !.resetAt = now + 1000 * r,
                                     !.resetAfter = 1000 * r,
                                     !.lastUpdated = now]
         /\ queue' = queue
         /\ activeRequests' = activeRequests
         /\ promises' = promises
         /\ timers' = timers
         /\ events' = <<>>]_vars

\* A 429 with retry-after 7 was reported while slots were out and callers
\* queued.
C10_Witness ==
    /\ ret.op = "handleRateLimited"
    /\ rateLimitState.remaining = 0
    /\ rateLimitState.resetAt = now + 7000
    /\ rateLimitState.limit = 10
    /\ activeRequests > 0
    /\ Len(queue) > 0

\* The record the store holds, read with the current secret: does it hold
\* this session, both tokens sealed?
Holds(record, session) ==
    /\ record.exists
    /\ record.user_id = session.userId
    /\ record.access_token.dot
    /\ record.access_token.dataPart.key = getAesKey(SESSION_SECRET)
    /\ record.access_token.dataPart.intact
    /\ record.access_token.dataPart.plain = TextEncode(session.accessToken)
    /\ record.refresh_token.dot
    /\ record.refresh_token.dataPart.key = getAesKey(SESSION_SECRET)
    /\ record.refresh_token.dataPart.intact
    /\ record.refresh_token.dataPart.plain = TextEncode(session.refreshToken)
    /\ record.expires_at = session.expiresAt
    /\ record.created_at = session.createdAt

\* Can a stored token be read with the current secret?
Readable(token) ==
    /\ token.dot
    /\ token.ivPart # 0
    /\ ~token.dataPart.empty
    /\ token.dataPart.key = getAesKey(SESSION_SECRET)
    /\ token.dataPart.iv = token.ivPart
    /\ token.dataPart.intact

\* C11: when the stored session expires less than 5 minutes from now,
\* getSessionContext goes into a refresh instead of returning the stored
\* credentials, and when the grant is accepted the session it returns and
\* the record it leaves in the store both carry the granted access token,
\* the granted refresh token (the previous one when the grant names none)
\* and expiresAt = time of the grant + expires_in, not the stale values.
C11_ProactiveRefresh ==
    [][\A q \in SessionRequests :
          /\ (/\ spc[q] = "get"
              /\ spc'[q] # "get"
              /\ store[sloc[q].sessionId].exists
              /\ Readable(store[sloc[q].sessionId].access_token)
              /\ Readable(store[sloc[q].sessionId].refresh_token)
              /\ store[sloc[q].sessionId].expires_at - now < 5 * 60 * 1000) =>
                 /\ spc'[q] \in {"grant", "fail"}
                 /\ sloc'[q].ctx = NoContext
          /\ (/\ "proactive" \in sloc[q].did
              /\ sloc[q].ctx = NoContext
              /\ ~sloc'[q].ctx.session.isNull) =>
                 LET got == sloc'[q].ctx.session
                     stale == sloc[q].before
                     tokenData == sloc[q].tokenData
                 IN  /\ "grant-accepted" \in sloc[q].did
                     /\ got.accessToken = tokenData.access_token
                     /\ got.accessToken # stale.accessToken
                     /\ got.refreshToken =
                           IF tokenData.refresh_token.present
                           THEN tokenData.refresh_token.value
                           ELSE stale.refreshToken
                     /\ tokenData.refresh_token.present =>
                           got.refreshToken # stale.refreshToken
                     /\ got.expiresAt =
                           sloc[q].refreshedAt + tokenData.expires_in * 1000
                     /\ got.expiresAt > stale.expiresAt
                     /\ got.userId = stale.userId
                     /\ got.createdAt = stale.createdAt
                     /\ Holds(store'[sloc[q].sessionId], got)]_vars

\* A request found the session four minutes from expiry, was granted a new
\* token pair, and returned it; the store holds the new pair.
C11_Witness ==
    \E q \in SessionRequests :
        /\ spc[q] = "ctx"
        /\ "proactive" \in sloc[q].did
        /\ sloc[q].stored.expires_at = StartNow + 240000
        /\ sloc[q].ctx.session.accessToken = AccessToken(1)
        /\ sloc[q].ctx.session.refreshToken = RefreshToken(1)
        /\ Holds(store[KnownId], sloc[q].ctx.session)

\* C12: when a stored token of the session named by the cookie cannot be
\* decrypted (wrong key, corrupted, malformed), getSessionContext does not
\* raise: it deletes the record and returns session = null with a
\* clear-cookie instruction and no set-cookie instruction.
C12_DecryptionFailure ==
    [][\A q \in SessionRequests :
          /\ (/\ spc[q] = "get"
              /\ spc'[q] # "get"
              /\ store[sloc[q].sessionId].exists
              /\ \/ ~Readable(store[sloc[q].sessionId].access_token)
                 \/ ~Readable(store[sloc[q].sessionId].refresh_token)) =>
                 /\ spc'[q] = "catch"
                 /\ "decrypt-thrown" \in sloc'[q].did
          /\ (/\ "decrypt-thrown" \in sloc[q].did
              /\ spc[q] = "catch") =>
                 \/ /\ spc'[q] = "catch"
                    /\ sloc'[q] = sloc[q]
                 \/ /\ spc'[q] = "ctx"
                    /\ ~store'[sloc[q].sessionId].exists
                    /\ sloc'[q].ctx.sessionId = sloc[q].sessionId
                    /\ sloc'[q].ctx.session = NoSession
                    /\ sloc'[q].ctx.setCookie = NoCookie
                    /\ sloc'[q].ctx.clearCookie.value = <<>>
                    /\ sloc'[q].ctx.clearCookie.maxAge = 0
                    /\ sloc'[q].ctx.clearCookie.name =
                          IF sloc[q].secure THEN "__Host-session" ELSE "session"
          /\ (/\ "decrypt-thrown" \in sloc[q].did
              /\ spc'[q] = "done") =>
                 /\ out'[q].status = 200
                 /\ Len(out'[q].cookies) = 1
                 /\ out'[q].cookies[1].maxAge = 0]_vars

\* A request met a record sealed under a rotated secret: the record is gone
\* and the request was answered with the cookie cleared.
C12_Witness ==
    \E q \in SessionRequests :
        /\ spc[q] = "done"
        /\ "decrypt-thrown" \in sloc[q].did
        /\ sloc[q].stored.access_token.dataPart.key = getAesKey(RotatedSecret)
        /\ ~store[KnownId].exists
        /\ out[q].status = 200

FailedRefresh(q) ==
    \/ "grant-rejected" \in sloc[q].did
    \/ "grant-thrown" \in sloc[q].did

\* C13: whenever a refresh attempt fails, in the proactive refresh of
\* getSessionContext or in the reactive refresh after a provider 401, the
\* request deletes the session record and its response clears the session
\* cookie.
C13_FailedRefreshInvalidates ==
    \A q \in SessionRequests :
        (spc[q] = "done" /\ FailedRefresh(q)) =>
            /\ "delete" \in sloc[q].did
            /\ Len(out[q].cookies) > 0
            /\ out[q].cookies[Len(out[q].cookies)].maxAge = 0

\* C14: refreshSession returns null on every failure of the grant, a
\* rejected grant and a network failure alike, raises nothing, and leaves
\* the stored record as it was.
C14_RefreshReturnsNull ==
    [][\A q \in SessionRequests :
          (FailedRefresh(q)' /\ ~FailedRefresh(q)) =>
              /\ sloc'[q].refreshOutcome = "null"
              /\ store' = store]_vars

Tokens == {AccessToken(n) : n \in 0..9} \cup {RefreshToken(n) : n \in 0..9}

Sealed(token) ==
    /\ token.dot
    /\ token.text = <<>>
    /\ token.ivPart # 0
    /\ ~token.dataPart.empty
    /\ token.dataPart.key = getAesKey(SESSION_SECRET)
    /\ token.dataPart.intact

OpaqueCookie(cookie, sessionId) ==
    /\ cookie.name \in {"__Host-session", "session"}
    /\ cookie.value \in {<<>>, sessionId}
    /\ cookie.value \notin Tokens

\* C15: every session record written to the store (at login, at the
\* re-persist of getSessionContext, at a refresh) holds both tokens sealed,
\* never as plain text, and every cookie a response sets holds the session
\* id or nothing.
C15_TokensStaySealed ==
    [][/\ \A id \in SessionIds :
             (store'[id] # store[id] /\ store'[id].exists) =>
                 /\ Sealed(store'[id].access_token)
                 /\ Sealed(store'[id].refresh_token)
                 /\ TextDecode(store'[id].access_token.dataPart.plain) \in Tokens
       /\ \A q \in SessionRequests :
             /\ \A i \in 1..Len(out'[q].cookies) :
                   OpaqueCookie(out'[q].cookies[i], sloc'[q].sessionId)
             /\ sloc'[q].ctx.setCookie # NoCookie =>
                   /\ OpaqueCookie(sloc'[q].ctx.setCookie, sloc'[q].sessionId)
                   /\ sloc'[q].ctx.setCookie.value = sloc'[q].sessionId]_vars

\* A login and a refresh have both written their records, and both
\* requests were answered with a session cookie.
C15_Witness ==
    \E q1, q2 \in SessionRequests :
        /\ "login" \in sloc[q1].did
        /\ "refresh-stored" \in sloc[q2].did
        /\ spc[q2] = "done"
        /\ Len(out[q2].cookies) = 1
        /\ out[q2].cookies[1].value = KnownId
        /\ out[q1].cookies[1].value = Uuid(2)
        /\ store[Uuid(2)].exists
        /\ store[KnownId].exists

\* C16: when two requests refresh the same session concurrently (both read
\* the record before either wrote it), then once both are through, the
\* store holds the record one of them wrote, whole: the session is not
\* deleted.
C16_ConcurrentRefresh ==
    \A q1, q2 \in SessionRequests :
        (/\ q1 # q2
         /\ sloc[q1].sessionId = KnownId
         /\ sloc[q2].sessionId = KnownId
         /\ sloc[q1].stored = sloc[q2].stored
         /\ "proactive" \in sloc[q1].did
         /\ "proactive" \in sloc[q2].did
         /\ "refresh-stored" \in sloc[q1].did
         /\ spc[q1] = "done"
         /\ spc[q2] = "done") =>
            \/ Holds(store[KnownId], sloc[q1].session)
            \/ Holds(store[KnownId], sloc[q2].session)

\* A step in which a batch settles and its results are processed.
Settles == run.pc = "inflight" /\ run'.pc # "inflight"

\* The last toast on the page.
LastToast(page) == page.toasts[Len(page.toasts)]

\* The results of kind `kinds` among the settled ones.
OfKind(settled, kinds) ==
    {k \in 1..Len(settled) : settled[k].result.kind \in kinds}

\* The result at k is reached by the loop over the results: the stop flag
\* was not set when the batch settled, and no result before it ended the
\* loop.
Reached(stopped, settled, k) ==
    /\ ~stopped
    /\ k \in 1..Len(settled)
    /\ \A j \in 1..(k - 1) : settled[j].result.kind \in {"widget", "Error"}

C18_StoppedBatchRecorded ==
    [][(Settles /\ fetchState.shouldStop) =>
          LET settled == run'.settled
          IN  /\ \A k \in OfKind(settled, {"widget"}) :
                    ui'.widgetCache[settled[k].guildId] =
                        CacheEntry(settled[k].result.instant_invite,
                                   settled[k].result.presence_count, now)
              /\ run'.widgetsEnabled + run'.widgetsDisabled =
                    run.widgetsEnabled + run.widgetsDisabled
                    + Cardinality(OfKind(settled, {"widget"}))
              /\ run'.errors =
                    run.errors + Cardinality(OfKind(settled, {"Error"}))]_vars

\* C18: when shouldStop is set while a batch is in flight, no result of
\* that batch is recorded: the cache, the counters and the success mark
\* stay as they were, and the summary of the stopped run shows the counts
\* from before the batch.
C18_StoppedBatchDiscarded ==
    [][(Settles /\ fetchState.shouldStop) =>
          /\ ui'.widgetCache = ui.widgetCache
          /\ run'.completed = run.completed
          /\ run'.widgetsEnabled = run.widgetsEnabled
          /\ run'.widgetsDisabled = run.widgetsDisabled
          /\ run'.errors = run.errors
          /\ run'.anySuccess = run.anySuccess
          /\ run'.rateLimited = run.rateLimited
          /\ run'.pc = "ended"
          /\ LastToast(ui') =
                Toast("stopped", run.widgetsEnabled, run.widgetsDisabled,
                      run.errors, 0)]_vars

\* Stop was clicked while the first batch was in flight; its five fetches
\* settled, one of them with a widget, and nothing of it was recorded.
C18_Witness ==
    /\ run.pc = "ended"
    /\ fetchState.shouldStop
    /\ ui.screen = "app"
    /\ Len(run.settled) = 5
    /\ run.issued = 1
    /\ \E k \in OfKind(run.settled, {"widget"}) :
          ~ui.widgetCache[run.settled[k].guildId].cached
    /\ OfKind(run.settled, {"Error"}) # {}
    /\ run.completed = 0
    /\ run.errors = 0
    /\ LastToast(ui) = Toast("stopped", 0, 0, 0, 0)

\* C19: when the loop over the results of a batch reaches a rate-limit
\* failure, the run is marked rate-limited and ends without another batch;
\* its toast reports the rate limit, with the retry-after seconds when the
\* failure carried a value above zero, and then the rate-limit deadline is
\* now + retry-after; without a value (a zero counts as none) the toast
\* reports the rate limit alone and no deadline is set.
C19_RateLimitObserved ==
    [][/\ run.rateLimited =>
             /\ run'.issued = run.issued
             /\ run'.rateLimited
       /\ \A k \in 1..Len(run'.settled) :
             (/\ Settles
              /\ Reached(fetchState.shouldStop, run'.settled, k)
              /\ run'.settled[k].result.kind = "RateLimitError") =>
                 LET retryAfter == run'.settled[k].result.retryAfter
                 IN  /\ run'.rateLimited
                     /\ run'.pc = "ended"
                     /\ run'.issued = run.issued
                     /\ run'.completed = run.completed + (k - 1)
                     /\ Len(ui'.toasts) = Len(ui.toasts) + 1
                     /\ LastToast(ui').kind = "rate-limited"
                     /\ IF retryAfter.present /\ retryAfter.value > 0
                        THEN /\ LastToast(ui').seconds = retryAfter.value
                             /\ fetchState'.rateLimitUntil =
                                   now + retryAfter.value * 1000
                             /\ fetchState'.rateLimitTimerId
                        ELSE /\ LastToast(ui').seconds = 0
                             /\ fetchState'.rateLimitUntil = 0
                             /\ ~fetchState'.rateLimitTimerId]_vars

\* The third fetch of the first of two batches was rate-limited for three
\* seconds: two results were recorded, the second batch was not issued, and
\* the deadline is three seconds ahead.
C19_Witness ==
    /\ run.pc = "ended"
    /\ run.rateLimited
    /\ Len(run.targets) = 6
    /\ run.issued = 1
    /\ run.completed = 2
    /\ run.settled[3].result = Rejected("RateLimitError", H(3))
    /\ fetchState.rateLimitUntil = now + 3000
    /\ LastToast(ui) = Toast("rate-limited", 0, 0, 0, 3)

\* C20: when the loop over the results of a batch reaches an authorization
\* failure, the run is aborted at once: no later result of the batch is
\* processed, no further batch is issued, the last-run timestamp is not
\* recorded, the cooldown timer is not started, no summary is shown,
\* inProgress is false and the sign-in screen is shown.
C20_AuthErrorAborts ==
    [][\A k \in 1..Len(run'.settled) :
          (/\ Settles
           /\ Reached(fetchState.shouldStop, run'.settled, k)
           /\ run'.settled[k].result.kind = "AuthError") =>
              /\ run'.completed = run.completed + (k - 1)
              /\ run'.issued = run.issued
              /\ ui'.lastFetchTimestamp = ui.lastFetchTimestamp
              /\ fetchState'.cooldownTimerId = fetchState.cooldownTimerId
              /\ \A n \in 1..Len(ui'.toasts) :
                    ui'.toasts[n].kind \notin {"stopped", "complete"}
              /\ ~fetchState'.inProgress
              /\ ui'.screen = "login"]_vars

\* A step in which performWidgetFetch is called.
Starts == ui'.runs = ui.runs + 1

\* C21: the targets are fetched in consecutive batches of at most 5, in the
\* order of the target list: the fetches in flight are the next targets
\* after those fetched so far, a batch is issued only when no fetch is in
\* flight and every result of the batch before is processed, and no target
\* is fetched twice in a run.
C21_BatchesInOrder ==
    [][/\ Len(inflight') <= 5
       /\ run'.fetches <= Len(run'.targets)
       /\ run'.pc = "inflight" =>
             /\ Len(inflight') >= 1
             /\ inflight' = SubSeq(run'.targets,
                                   run'.fetches - Len(inflight') + 1,
                                   run'.fetches)
             /\ Len(inflight') = 5 \/ run'.fetches = Len(run'.targets)
       /\ run'.pc # "inflight" => inflight' = <<>>
       /\ run'.issued # run.issued =>
             /\ run'.issued = run.issued + 1
             /\ run.pc \in {"idle", "delay"}
             /\ inflight = <<>>
             /\ run'.fetches = run.fetches + Len(inflight')
             /\ run.completed = run.fetches
       /\ \A j, k \in 1..Len(run'.targets) :
             run'.targets[j] = run'.targets[k] => j = k]_vars

\* The second batch of a run over six servers is in flight: it holds the
\* sixth server alone, and the five results of the first are processed.
C21_Witness ==
    /\ run.pc = "inflight"
    /\ run.issued = 2
    /\ run.fetches = 6
    /\ run.completed = 5
    /\ inflight = <<6>>

\* C22: a fetch that fails with an error other than an authorization or
\* rate-limit failure is counted as one error and stops nothing: in a batch
\* whose results are widgets and such errors, every result is processed
\* (widgets cached and counted, errors counted one each), and the run goes
\* on to the delay and the next batch when targets remain.
C22_OtherErrorsContinue ==
    [][/\ (/\ Settles
           /\ ~fetchState.shouldStop
           /\ OfKind(run'.settled, {"Error"}) # {}
           /\ OfKind(run'.settled, {"widget", "Error"}) =
                 1..Len(run'.settled)) =>
              /\ run'.errors =
                    run.errors + Cardinality(OfKind(run'.settled, {"Error"}))
              /\ run'.completed = run.completed + Len(run'.settled)
              /\ run'.widgetsEnabled + run'.widgetsDisabled =
                    run.widgetsEnabled + run.widgetsDisabled
                    + Cardinality(OfKind(run'.settled, {"widget"}))
              /\ \A k \in OfKind(run'.settled, {"widget"}) :
                    ui'.widgetCache[run'.settled[k].guildId] =
                        CacheEntry(run'.settled[k].result.instant_invite,
                                   run'.settled[k].result.presence_count, now)
              /\ ~run'.rateLimited
              /\ ~fetchState'.shouldStop
              /\ ui'.screen = "app"
              /\ IF run'.fetches < Len(run'.targets)
                 THEN run'.pc = "delay"
                 ELSE /\ run'.pc = "ended"
                      /\ LastToast(ui').kind = "complete"
                      /\ LastToast(ui').errors = run'.errors
       /\ (run.pc = "delay" /\ ~fetchState.shouldStop /\ run' # run) =>
              /\ run'.pc = "inflight"
              /\ run'.issued = run.issued + 1]_vars

\* The second fetch of the first batch failed with an error: it counts as
\* one error, the third server's widget is cached all the same, and the run
\* waits for its second batch.
C22_Witness ==
    /\ run.pc = "delay"
    /\ run.settled[2].result.kind = "Error"
    /\ run.settled[3].result.kind = "widget"
    /\ ui.widgetCache[3].cached
    /\ run.errors = 1
    /\ run.completed = 5

\* C23: a run without forced refresh when every server is cached has no
\* target: it shows "All servers already cached", fetches nothing, writes
\* neither the cache nor the last-run timestamp, and leaves inProgress
\* false.
C23_NothingToDo ==
    [][(/\ Starts
        /\ ~run'.force
        /\ \A g \in Guilds : ui.widgetCache[g].cached) =>
           /\ run'.pc = "ended"
           /\ run'.targets = <<>>
           /\ run'.fetches = 0
           /\ run'.issued = 0
           /\ inflight' = <<>>
           /\ ui'.widgetCache = ui.widgetCache
           /\ ui'.lastFetchTimestamp = ui.lastFetchTimestamp
           /\ ~fetchState'.inProgress
           /\ fetchState'.cooldownTimerId = fetchState.cooldownTimerId
           /\ ui'.progressHidden
           /\ ui'.toasts =
                 Append(ui.toasts, Toast("all-cached", 0, 0, 0, 0))]_vars

\* A run was started with every server cached and ended at once.
C23_Witness ==
    /\ run.pc = "ended"
    /\ ~run.force
    /\ run.total = 0
    /\ run.fetches = 0
    /\ \A g \in Guilds : ui.widgetCache[g].cached
    /\ LastToast(ui).kind = "all-cached"
    /\ ~fetchState.inProgress

\* C24: performWidgetFetch never throws, whatever the fetches and the cache
\* writes do, and whenever it has returned inProgress is false.
C24_RunNeverThrows ==
    /\ run.pc # "thrown"
    /\ run.pc \in {"ended", "thrown"} => ~fetchState.inProgress

\* C25: the targets of a run are every server, with the cache cleared
\* first, when the refresh is forced, and otherwise the servers without a
\* cache entry, in the order of the server list; so a run without force
\* that follows a run in which every fetch succeeded has no target.
C25_TargetsOfRun ==
    [][Starts =>
          /\ \A g \in Guilds :
                (\E k \in 1..Len(run'.targets) : run'.targets[k] = g) <=>
                    (run'.force \/ ~ui.widgetCache[g].cached)
          /\ \A j, k \in 1..Len(run'.targets) :
                j < k => run'.targets[j] < run'.targets[k]
          /\ run'.total = Len(run'.targets)
          /\ IF run'.force
             THEN \A g \in Guilds :
                     g \notin {inflight'[k] : k \in 1..Len(inflight')} =>
                         ~ui'.widgetCache[g].cached
             ELSE ui'.widgetCache = ui.widgetCache
          /\ (/\ run.pc = "ended"
              /\ run.total > 0
              /\ run.widgetsEnabled + run.widgetsDisabled = run.total
              /\ ~run'.force) =>
                 /\ run'.targets = <<>>
                 /\ run'.pc = "ended"
                 /\ LastToast(ui').kind = "all-cached"]_vars

\* A run fetched all six servers, and the run without force started after
\* it found nothing to fetch.
C25_Witness ==
    /\ ui.runs = 2
    /\ run.pc = "ended"
    /\ ~run.force
    /\ run.total = 0
    /\ Len(ui.toasts) = 2
    /\ ui.toasts[1] = Toast("complete", 6, 0, 0, 0)
    /\ ui.toasts[2].kind = "all-cached"

\* C26: after a batch the run waits 1000 ms before the next batch, once,
\* exactly when targets remain and the run is neither stopped nor
\* rate-limited; nothing is waited for after the last batch, and a batch
\* after the first is issued only at the end of that wait.
C26_DelayBetweenBatches ==
    [][/\ (run'.pc = "delay" /\ run.pc # "delay") =>
             /\ Settles
             /\ run'.fetches < Len(run'.targets)
             /\ ~fetchState'.shouldStop
             /\ ~run'.rateLimited
       /\ (Settles /\ run'.pc # "thrown") =>
             (run'.pc = "delay" <=>
                 /\ run'.fetches < Len(run'.targets)
                 /\ ~fetchState'.shouldStop
                 /\ ~run'.rateLimited)
       /\ (Settles /\ run'.fetches = Len(run'.targets)) => run'.pc # "delay"
       /\ (run.pc = "delay" /\ run' # run) =>
             /\ now' = now + 1000
             /\ run'.pc \in {"inflight", "ended"}
       /\ (run'.issued # run.issued /\ run.issued >= 1) =>
             /\ run.pc = "delay"
             /\ now' = now + 1000]_vars

\* The second batch was issued one second after the first was processed.
C26_Witness ==
    /\ run.pc = "inflight"
    /\ run.issued = 2
    /\ now = StartNow + 1000
    /\ ~fetchState.shouldStop
    /\ ~run.rateLimited

\* The Set-Cookie values request q has built so far: those of its response
\* and those of its session context.
CookiesBuilt(q) ==
    {out[q].cookies[k] : k \in 1..Len(out[q].cookies)}
    \cup ({sloc[q].ctx.setCookie, sloc[q].ctx.clearCookie} \ {NoCookie})

\* C27: when the grant is accepted, the session refreshSession returns and
\* the record it persists carry the access token of the response, expiresAt
\* = time of the response + expires_in, the refresh token of the response
\* or, when it has none, the previous refresh token, and the userId and
\* createdAt the session had; this on the proactive and the reactive path.
C27_RefreshSessionResult ==
    [][\A q \in SessionRequests :
          (spc[q] \in {"put", "reput"} /\ spc'[q] # spc[q]) =>
              LET got == sloc'[q].session
                  previous == sloc[q].before
                  tokenData == sloc[q].tokenData
                  record == store'[sloc[q].sessionId]
                  access == decryptToken(record.access_token, SESSION_SECRET)
                  refresh == decryptToken(record.refresh_token, SESSION_SECRET)
              IN  /\ sloc'[q].refreshOutcome = "session"
                  /\ ~got.isNull
                  /\ got.accessToken = tokenData.access_token
                  /\ got.expiresAt =
                        sloc[q].refreshedAt + tokenData.expires_in * 1000
                  /\ got.refreshToken =
                        IF tokenData.refresh_token.present
                        THEN tokenData.refresh_token.value
                        ELSE previous.refreshToken
                  /\ got.refreshToken # <<>>
                  /\ got.userId = previous.userId
                  /\ got.createdAt = previous.createdAt
                  /\ record.exists
                  /\ ~access.thrown /\ access.value = got.accessToken
                  /\ ~refresh.thrown /\ refresh.value = got.refreshToken
                  /\ record.user_id = got.userId
                  /\ record.expires_at = got.expiresAt
                  /\ record.created_at = got.createdAt]_vars

\* After a 401 of the provider a grant without a refresh token was
\* accepted: the session returned has the new access token and the refresh
\* token it had before.
C27_Witness ==
    \E q \in SessionRequests :
        /\ spc[q] = "recall"
        /\ "reactive" \in sloc[q].did
        /\ ~sloc[q].tokenData.refresh_token.present
        /\ sloc[q].session.accessToken = sloc[q].tokenData.access_token
        /\ sloc[q].session.accessToken # sloc[q].before.accessToken
        /\ sloc[q].session.refreshToken = RefreshToken(0)
        /\ sloc[q].before.refreshToken = RefreshToken(0)

\* C29: the session cookies of a request are determined by its secure
\* flag: over https every cookie set or cleared is named __Host-session
\* and has Path=/ and Secure, over http it is named session and has no
\* Secure; and the name the request's cookie was read under is the name of
\* every cookie the request sets or clears, logout included.
C29_CookieBySecureFlag ==
    \A q \in SessionRequests :
        \A c \in CookiesBuilt(q) :
            /\ c.path = "/"
            /\ c.httpOnly
            /\ IF sloc[q].secure
               THEN c.name = "__Host-session" /\ c.secure
               ELSE c.name = "session" /\ ~c.secure
            /\ sloc[q].readName # "" => c.name = sloc[q].readName
            /\ c.maxAge = 0 <=> c.value = <<>>

\* A logout over http cleared the cookie named session, and a request over
\* https had its __Host-session cookie set again.
C29_Witness ==
    \E q, p \in SessionRequests :
        /\ "logout" \in sloc[q].did
        /\ ~sloc[q].secure
        /\ sloc[q].sessionId = KnownId
        /\ out[q].cookies[1].name = "session"
        /\ out[q].cookies[1].maxAge = 0
        /\ "persist" \in sloc[p].did
        /\ sloc[p].secure
        /\ sloc[p].readName = "__Host-session"
        /\ sloc[p].ctx.setCookie.name = "__Host-session"

\* Is code unit i of a string a surrogate without its partner?
Unpaired(text, i) ==
    \/ text[i] = HighSurrogate /\ (i = Len(text) \/ text[i + 1] # LowSurrogate)
    \/ text[i] = LowSurrogate /\ (i = 1 \/ text[i - 1] # HighSurrogate)

\* A string of well-formed UTF-16.
IsWellFormed(text) == \A i \in 1..Len(text) : ~Unpaired(text, i)

ResolveCalls(evs, id) == {i \in 1..Len(evs) : evs[i].id = id}

\* C30: a queued request is resolved exactly when it leaves the queue, by
\* one resolve() call, and never enters the queue again: it leaves either
\* granted by a queue advance, its timer cancelled, or denied by its own
\* timer with the queue-timeout error; after that it has no timer, no
\* unresolved promise and no place in the queue, so the other outcome
\* cannot follow.  A timer that fires leaves activeRequests as it was, and
\* a queue advance adds one to it for each request it grants.
C30_ResolvedOnce ==
    [][/\ \A id \in 1..MaxCalls :
             LET calls == ResolveCalls(events', id)
                 leaves == id \in QueueIds /\ id \notin QueueIds'
             IN  /\ Cardinality(calls) <= 1
                 /\ calls # {} <=> leaves
                 /\ (id < nextId /\ id \notin QueueIds) => id \notin QueueIds'
                 /\ id \in QueueIds' =>
                       /\ Cardinality({i \in 1..Len(queue') :
                                          queue'[i].id = id}) = 1
                       /\ Cardinality({tm \in timers' : tm.id = id}) = 1
                       /\ id \in DOMAIN promises'
                 /\ id \notin QueueIds' =>
                       /\ \A tm \in timers' : tm.id # id
                       /\ id \notin DOMAIN promises'
                 /\ leaves =>
                       LET v == events'[CHOOSE i \in calls : TRUE].value
                       IN  IF ret'.op = "timeout"
                           THEN /\ ~v.allowed
                                /\ v.error = "Queue timeout"
                                /\ \E tm \in timers \ timers' :
                                      tm.id = id /\ now >= tm.due
                           ELSE /\ v.allowed
                                /\ v.queueId = id
                                /\ ret'.op \in {"releaseSlot",
                                                "updateFromResponse"}
                                /\ \E tm \in timers \ timers' :
                                      tm.id = id /\ now <= tm.due
       /\ ret'.op = "timeout" =>
             /\ activeRequests' = activeRequests
             /\ Len(events') <= 1
       /\ ret'.op = "updateFromResponse" =>
             activeRequests' = activeRequests + Len(events')
       /\ ret'.op = "releaseSlot" =>
             activeRequests' =
                 (IF activeRequests > 0 THEN activeRequests - 1 ELSE 0)
                 + Len(events')]_vars

\* A release granted the oldest queued request: its timer and its promise
\* are gone, and the request behind it still waits with its timer armed.
C30_Witness ==
    /\ ret.op = "releaseSlot"
    /\ Len(events) = 1
    /\ events[1].id = 1
    /\ events[1].value.allowed
    /\ QueueIds = {2}
    /\ \A tm \in timers : tm.id = 2
    /\ DOMAIN promises = {2}
    /\ activeRequests >= 1

\* C31: releaseSlot takes one from activeRequests, unless it is 0, and
\* then grants queued callers, oldest first, adding one to activeRequests
\* for each, until the queue is empty or the effective remaining is not
\* positive; so when releaseSlot or updateFromResponse has returned, the
\* queue is empty or the effective remaining is at most 0.
C31_QueueDrained ==
    [][ret'.op \in {"releaseSlot", "updateFromResponse"} =>
          LET released == IF ret'.op = "releaseSlot" /\ activeRequests > 0
                          THEN activeRequests - 1 ELSE activeRequests
              granted == Len(events')
          IN  /\ released >= 0
              /\ activeRequests' = released + granted
              /\ granted <= Len(queue)
              /\ queue' = SubSeq(queue, granted + 1, Len(queue))
              /\ \A i \in 1..granted :
                    /\ events'[i].id = queue[i].id
                    /\ events'[i].value.allowed
              /\ \/ Len(queue') = 0
                 \/ getEffectiveRemaining(rateLimitState', activeRequests',
                                          now') <= 0
              /\ granted > 0 =>
                    getEffectiveRemaining(rateLimitState',
                                          activeRequests' - 1, now') > 0]_vars

\* A release granted the oldest of several queued callers and stopped
\* there, the slot it freed being taken again.
C31_Witness ==
    /\ ret.op = "releaseSlot"
    /\ Len(events) = 1
    /\ events[1].value.allowed
    /\ Len(queue) >= 1
    /\ getEffectiveRemaining(rateLimitState, activeRequests, now) <= 0
    /\ getEffectiveRemaining(rateLimitState, activeRequests - 1, now) > 0

\* C32: the effective remaining is limit - 2 - activeRequests, not clamped,
\* when resetAt is known and the reset time has passed; otherwise it is
\* max(0, 5 - 2 - activeRequests) when the state was never updated or was
\* last updated more than 60000 ms ago; otherwise it is
\* max(0, remaining - 2 - activeRequests).
C32_EffectiveRemaining ==
    ret.op = "getEffectiveRemaining" =>
        LET st == rateLimitState
            passed == st.resetAt # 0 /\ now >= st.resetAt
            stale == st.lastUpdated = 0 \/ now - st.lastUpdated > 60000
            fromDefault == 5 - 2 - activeRequests
            fromRemaining == st.remaining - 2 - activeRequests
        IN  /\ passed => ret.value = st.limit - 2 - activeRequests
            /\ (~passed /\ stale) =>
                  ret.value = IF fromDefault > 0 THEN fromDefault ELSE 0
            /\ (~passed /\ ~stale) =>
                  ret.value = IF fromRemaining > 0 THEN fromRemaining ELSE 0

\* The reset time has passed in a state that is stale as well, with more
\* slots checked out than the limit allows: the value is negative.
C32_Witness ==
    /\ ret.op = "getEffectiveRemaining"
    /\ rateLimitState.resetAt = StartNow - 1000
    /\ now - rateLimitState.lastUpdated > 60000
    /\ rateLimitState.limit = 1
    /\ activeRequests = 4
    /\ ret.value = 0 - 5

\* Does this step hand a slot to a caller, at once or from the queue?
GrantsSlot ==
    \/ activeRequests' > activeRequests
    \/ ret'.op = "acquireSlot" /\ ret'.status = "returned" /\ ret'.value.allowed
    \/ \E i \in 1..Len(events') : events'[i].value.allowed

\* C33, as claimed: after handleRateLimited(r), r > 0, with no
\* updateFromResponse later, no caller is granted a slot before the clock
\* reaches resetAt, however long r is.
C33_NoGrantBeforeReset ==
    [][(/\ rateLimitState.lastUpdated # 0
        /\ now < rateLimitState.resetAt
        /\ ret'.op \in {"acquireSlot", "releaseSlot"}) => ~GrantsSlot]_vars

\* C33: after handleRateLimited(r), r > 0, with no updateFromResponse
\* later, no caller is granted a slot, by acquireSlot or from the queue by
\* releaseSlot, while the clock has not reached resetAt and the call is at
\* most 60000 ms old; acquireSlot queues its caller, and the state stays
\* as handleRateLimited left it.
C33_NoGrantWhileFresh ==
    [][(/\ rateLimitState.lastUpdated # 0
        /\ now < rateLimitState.resetAt
        /\ now - rateLimitState.lastUpdated <= 60000
        /\ ret'.op \in {"acquireSlot", "releaseSlot"}) =>
           /\ ~GrantsSlot
           /\ rateLimitState' = rateLimitState
           /\ rateLimitState.remaining = 0
           /\ ret'.op = "acquireSlot" =>
                 \/ ret'.status = "suspended" /\ Len(queue') = Len(queue) + 1
                 \/ ret'.status = "returned" /\ ret'.value.error = QUEUE_FULL
           /\ ret'.op = "releaseSlot" => queue' = queue]_vars

\* Seven seconds after a 429 with a retry-after of 70 s a caller asked for
\* a slot with none checked out, and was queued.
C33_Witness ==
    /\ ret.op = "acquireSlot"
    /\ ret.status = "suspended"
    /\ activeRequests = 0
    /\ rateLimitState.remaining = 0
    /\ rateLimitState.lastUpdated = StartNow
    /\ rateLimitState.resetAt = StartNow + 70000
    /\ now = StartNow + QUEUE_TIMEOUT_MS

\* C34, as claimed: in every reachable state of the coordinator the slots
\* checked out never exceed limit - 2.
C34_ReserveOfLimit == activeRequests <= rateLimitState.limit - 2

\* C34: the reserve is held back at every grant, from the number the grant
\* is made on: a step that raises activeRequests leaves it at most 2 below
\* the limit when the reset time has passed, else 2 below the default of 5
\* when the state is stale, else 2 below the stored remaining; and no step
\* but a grant raises it.
C34_ReserveAtGrant ==
    [][activeRequests' > activeRequests =>
          LET st == rateLimitState'
              granted == IF st.resetAt > 0 /\ now >= st.resetAt THEN st.limit
                         ELSE IF st.lastUpdated = 0
                                 \/ now - st.lastUpdated > 60000 THEN 5
                         ELSE st.remaining
          IN  /\ activeRequests' <= granted - 2
              /\ \/ /\ ret'.op = "acquireSlot"
                    /\ ret'.status = "returned"
                    /\ ret'.value.allowed
                    /\ activeRequests' = activeRequests + 1
                 \/ /\ ret'.op \in {"releaseSlot", "updateFromResponse"}
                    /\ Len(events') >= activeRequests' - activeRequests]_vars

\* After a response gave a limit of 1 a caller was granted a slot on the
\* stored remaining of 3: one slot is out, which is more than limit - 2.
C34_Witness ==
    /\ ret.op = "acquireSlot"
    /\ ret.status = "returned"
    /\ ret.value.allowed
    /\ rateLimitState.limit = 1
    /\ rateLimitState.remaining = 3
    /\ rateLimitState.lastUpdated = now
    /\ activeRequests = 1

\* Does this step grant a slot to the caller of acquireSlot at once?
GrantsAtOnce ==
    ret'.op = "acquireSlot" /\ ret'.status = "returned" /\ ret'.value.allowed

\* C35, as claimed: a new caller is granted at once only when the queue is
\* empty.
C35_NoGrantAhead == [][GrantsAtOnce => Len(queue) = 0]_vars

\* C35: acquireSlot grants at once exactly on a positive effective
\* remaining, whether callers wait or not, and leaves the queue as it is.
\* Right after a queue advance (releaseSlot, updateFromResponse) no new
\* caller passes a waiting one; a new caller is granted ahead of waiting
\* callers only when capacity has appeared with the passing of time, the
\* reset time being reached or the state gone stale, and no queue advance
\* has been made since.
C35_AdmissionOrder ==
    [][/\ GrantsAtOnce =>
             /\ getEffectiveRemaining(rateLimitState, activeRequests, now) > 0
             /\ queue' = queue
             /\ timers' = timers
             /\ promises' = promises
             /\ Len(queue) > 0 =>
                   /\ ret.op \notin {"releaseSlot", "updateFromResponse"}
                   /\ \/ /\ rateLimitState.resetAt > 0
                         /\ now >= rateLimitState.resetAt
                      \/ now - rateLimitState.lastUpdated > 60000
       /\ (/\ ret'.op = "acquireSlot"
           /\ getEffectiveRemaining(rateLimitState, activeRequests, now) > 0) =>
             GrantsAtOnce]_vars

\* The reset time was reached while a caller waited in the queue, and a
\* new caller was granted a slot at once, ahead of it.
C35_Witness ==
    /\ ret.op = "acquireSlot"
    /\ ret.status = "returned"
    /\ ret.value.allowed
    /\ Len(queue) > 0
    /\ rateLimitState.resetAt > 0
    /\ now >= rateLimitState.resetAt

\* C36: updateFromResponse given neither limit nor remaining changes nothing
\* in the coordinator: the rate-limit state, activeRequests, the queue and
\* its timers stay as they are and no waiting caller is resolved.
C36_QuietUpdateChangesNothing ==
    [][ret'.op = "updateFromResponse" =>
          /\ rateLimitState' = rateLimitState
          /\ activeRequests' = activeRequests
          /\ queue' = queue
          /\ timers' = timers
          /\ promises' = promises
          /\ events' = <<>>]_vars

\* Was handler h answered a 429 that carries a retry-after hint?
HintedRateLimit(h) ==
    /\ ~resp[h].thrown
    /\ resp[h].status = 429
    /\ RetryAfterOf(resp[h]) # NoRetryAfter

\* Does handler h release its slot in this step, after such a 429?
ReleasesAfterHint(h) ==
    /\ pc[h] = "release"
    /\ pc'[h] = "done"
    /\ HintedRateLimit(h)

\* C37, as claimed: when the handler of a 429 with a retry-after hint
\* releases its slot, remaining is 0 afterwards and no queued caller is
\* granted.
C37_ReleaseGrantsNobody ==
    [][\A h \in Handlers :
          ReleasesAfterHint(h) =>
             /\ rateLimitState'.remaining = 0
             /\ events' = <<>>
             /\ queue' = queue]_vars

\* C37: on a 429 with a retry-after hint the handler calls
\* updateFromResponse with the response's headers, then
\* handleRateLimited(retryAfter), which leaves remaining = 0 and the queue
\* as it is, and releases its slot only after that. The release leaves
\* remaining = 0 and grants no queued caller when it is the coordinator's
\* next call after a handleRateLimited and the reset time is not reached
\* yet.
C37_NotifyBeforeRelease ==
    [][\A h \in Handlers :
          /\ (pc[h] = "update" /\ pc'[h] # "update" /\ HintedRateLimit(h)) =>
                /\ pc'[h] = "notify"
                /\ ret'.op = "updateFromResponse"
                /\ rateLimitState' = MergeHeaders(rateLimitState, resp[h].headers, now)
                /\ releases'[h] = 0
          /\ (pc[h] # "notify" /\ pc'[h] = "notify") =>
                (pc[h] = "update" /\ HintedRateLimit(h))
          /\ (pc[h] = "notify" /\ pc'[h] # "notify") =>
                /\ pc'[h] = "release"
                /\ ret'.op = "handleRateLimited"
                /\ rateLimitState'.remaining = 0
                /\ rateLimitState'.resetAt = now + RetryAfterOf(resp[h]) * 1000
                /\ queue' = queue
                /\ events' = <<>>
                /\ releases'[h] = 0
          /\ ReleasesAfterHint(h) =>
                /\ ret'.op = "releaseSlot"
                /\ releases[h] = 0
                /\ releases'[h] = 1
                /\ answer[h] = 429
                /\ (ret.op = "handleRateLimited" /\ now < rateLimitState.resetAt) =>
                      /\ rateLimitState'.remaining = 0
                      /\ events' = <<>>
                      /\ queue' = queue]_vars

\* A handler told of a 429 with a hint has released its slot right after
\* its handleRateLimited call, while another caller waited in the queue and
\* still waits.
C37_Witness ==
    \E h \in Handlers :
       /\ pc[h] = "done"
       /\ HintedRateLimit(h)
       /\ releases[h] = 1
       /\ ret.op = "releaseSlot"
       /\ Len(queue) > 0
       /\ rateLimitState.remaining = 0
       /\ now < rateLimitState.resetAt

\* The results the loop over a settled batch has recorded: those it
\* reached that are a widget or an error other than the two that end it.
Recorded(stopped, settled, kinds) ==
    {k \in OfKind(settled, kinds) : Reached(stopped, settled, k)}

\* C38: the results of a batch are processed in the order of the batch, up
\* to the first rate-limit (or authorization) failure, and not at all when
\* the stop flag is set: each result reached is recorded, a widget in the
\* cache and the counters, an error in the counters, and for every later
\* result nothing is written to the cache and no counter changes.
C38_ResultsInOrder ==
    [][Settles =>
          LET settled == run'.settled
              stopped == fetchState.shouldStop
          IN  /\ Len(settled) = Len(inflight)
              /\ \A k \in 1..Len(settled) : settled[k].guildId = inflight[k]
              /\ \A k \in Recorded(stopped, settled, {"widget"}) :
                    ui'.widgetCache[settled[k].guildId] =
                        CacheEntry(settled[k].result.instant_invite,
                                   settled[k].result.presence_count, now)
              /\ \A k \in 1..Len(settled) :
                    ~Reached(stopped, settled, k) =>
                       ui'.widgetCache[settled[k].guildId] =
                           ui.widgetCache[settled[k].guildId]
              /\ run'.widgetsEnabled + run'.widgetsDisabled =
                    run.widgetsEnabled + run.widgetsDisabled
                    + Cardinality(Recorded(stopped, settled, {"widget"}))
              /\ run'.errors =
                    run.errors + Cardinality(Recorded(stopped, settled, {"Error"}))
              /\ run'.completed =
                    run.completed
                    + Cardinality(Recorded(stopped, settled, {"widget", "Error"}))]_vars

\* A batch settled with a widget, then a rate-limit failure, then another
\* widget: the first was recorded, the one after the failure was not.
C38_Witness ==
    /\ run.pc = "ended"
    /\ run.rateLimited
    /\ ~fetchState.shouldStop
    /\ \E k \in 2..Len(run.settled) :
          /\ run.settled[k].result.kind = "RateLimitError"
          /\ \A j \in 1..(k - 1) : run.settled[j].result.kind \in {"widget", "Error"}
          /\ run.completed = k - 1
          /\ \E j \in 1..(k - 1) :
                /\ run.settled[j].result.kind = "widget"
                /\ ui.widgetCache[run.settled[j].guildId].cached
          /\ \E j \in (k + 1)..Len(run.settled) :
                /\ run.settled[j].result.kind = "widget"
                /\ ~ui.widgetCache[run.settled[j].guildId].cached

\* C39: once the store holds the session a refresh has written, no step
\* puts back the record of the session that refresh started from, with its
\* old pair of tokens.
C39_RefreshNotUndone ==
    [][\A q \in SessionRequests :
          (/\ "refresh-stored" \in sloc[q].did
           /\ Holds(store[sloc[q].sessionId], sloc[q].refreshed)) =>
              ~Holds(store'[sloc[q].sessionId], sloc[q].before)]_vars

\* The steps of one request around its provider call: the call is made
\* once, the reactive refresh is begun at most once and only on the 401 of
\* that call, and the provider is called again at most once, only with the
\* tokens that refresh stored, after which the request is answered.
OneRefreshOneRetry(q) ==
    /\ (spc[q] # "call" /\ spc'[q] = "call") =>
          /\ spc[q] = "ctx"
          /\ sloc[q].did \cap {"call", "recall", "reactive"} = {}
    /\ (spc[q] # "regrant" /\ spc'[q] = "regrant") =>
          /\ spc[q] = "call"
          /\ "reactive" \notin sloc[q].did
          /\ "reactive" \in sloc'[q].did
    /\ (spc[q] # "reput" /\ spc'[q] = "reput") => spc[q] = "regrant"
    /\ (spc[q] # "recall" /\ spc'[q] = "recall") =>
          /\ spc[q] = "reput"
          /\ "recall" \notin sloc[q].did
          /\ sloc'[q].session = sloc[q].refreshed
          /\ Holds(store'[sloc[q].sessionId], sloc[q].refreshed)
    /\ (spc[q] = "recall" /\ spc'[q] # "recall") =>
          /\ spc'[q] = "done"
          /\ UNCHANGED <<store, nextToken>>
    /\ (spc[q] = "done" /\ "call" \in sloc[q].did) =>
          /\ spc'[q] = "done"
          /\ sloc'[q] = sloc[q]

\* The reactive refresh of request q fails in this step.
ReactiveRefreshFails(q) ==
    \/ spc[q] = "regrant" /\ spc'[q] \notin {"regrant", "reput"}
    \/ /\ spc[q] = "call"
       /\ "reactive" \in sloc'[q].did
       /\ spc'[q] # "regrant"

\* The answer of a handler that found no usable session: 200, with the
\* session cookie cleared.
Unauthenticated(response) ==
    /\ response.status = 200
    /\ Len(response.cookies) > 0
    /\ response.cookies[Len(response.cookies)].maxAge = 0
    /\ response.cookies[Len(response.cookies)].value = <<>>

\* C40: a 401 from the provider leads to at most one refresh and at most
\* one further call, made with the refreshed access token: a request makes
\* at most two provider calls and one reactive refresh, and a refresh that
\* fails is not tried again: the request ends there, answered as
\* unauthenticated.
C40_FailedRefreshUnauthenticated ==
    [][\A q \in SessionRequests :
          /\ OneRefreshOneRetry(q)
          /\ ReactiveRefreshFails(q) =>
                /\ spc'[q] = "done"
                /\ "recall" \notin sloc'[q].did
                /\ UNCHANGED <<store, nextToken>>
                /\ Unauthenticated(out'[q])]_vars

\* What the code keeps of C40: the bounds on calls and refreshes, and no
\* second attempt after a failed refresh; the request is answered as
\* unauthenticated when the grant was rejected or there was no refresh
\* token, and with a 500 when the token request threw.
C40_OneRefreshOneRetry ==
    [][\A q \in SessionRequests :
          /\ OneRefreshOneRetry(q)
          /\ ReactiveRefreshFails(q) =>
                /\ spc'[q] = "done"
                /\ "recall" \notin sloc'[q].did
                /\ UNCHANGED <<store, nextToken>>
                /\ IF "grant-thrown" \in sloc'[q].did
                   THEN out'[q] = HttpResponse(500, <<>>)
                   ELSE Unauthenticated(out'[q])]_vars

\* A request whose call was answered 401 refreshed once, called the
\* provider once more with the new token and was answered 401 again: it
\* ended there, with the user signed out.
C40_Witness ==
    \E q \in SessionRequests :
        /\ spc[q] = "done"
        /\ {"call", "reactive", "refresh-stored", "recall"} \subseteq sloc[q].did
        /\ "proactive" \notin sloc[q].did
        /\ Unauthenticated(out[q])

====
